---- MODULE Spec2Model ----
(***************************************************************************)
(* State-machine model of the WacomStu540 WebHID driver                    *)
(* (src/WacomStu540.js, lines 15-903).                                     *)
(*                                                                         *)
(* JavaScript runs one task at a time: every action below is one           *)
(* synchronous run of driver code, from the event that starts it (an API   *)
(* call, a promise settled by the transport, a timer, an input report) to  *)
(* the next await on something that is still outstanding.  A feature       *)
(* report request that has been handed to the HID device stays in          *)
(* `pending` until the transport settles it; WebHID runs each request "in  *)
(* parallel" and fixes no order between distinct outstanding requests, so  *)
(* any pending request may be the next one to settle.                      *)
(***************************************************************************)
EXTENDS Integers, Sequences, FiniteSets, TLC

(***************************************************************************)
(* Bounds of the model.                                                    *)
(***************************************************************************)
\* number of driver calls that can be in progress at the same time
MaxCalls == 2
\* number of stimuli from outside the driver (API calls, input reports,
\* closing of the device session, transport faults) in one behaviour
MaxStimuli == 4
\* image bytes per writeImageData report (253 in the driver, scaled down
\* together with the display size so that an image is a few chunks)
ChunkSize == 2
\* number of subscriptions
MaxListeners == 3

(***************************************************************************)
(* Program constants.                                                      *)
(***************************************************************************)
MaxTry == 20
imageFormat24BGR == 4
penData == 1
information == 8
capability == 9
writingMode == 14
eSerial == 15
clearScreen == 32
inkMode == 33
writeImageStart == 37
writeImageData == 38
writeImageEnd == 39
writingArea == 42
brightness == 43
penColorAndWidth == 45
backgroundColor == 46
penDataTiming == 52

(***************************************************************************)
(* JavaScript values.  A field that may be null is a sequence of length 0  *)
(* (null) or 1 (the value).  NaN and Infinity are the results of dividing  *)
(* by a null (0) scale factor or pressure range.                           *)
(***************************************************************************)
Null == <<>>
Some(v) == <<v>>
\* ToNumber(): null counts as 0 in arithmetic
Num(o) == IF o = Null THEN 0 ELSE o[1]
NaN == 0 - 1
Infinity == 0 - 2

Calls == 1 .. MaxCalls

(***************************************************************************)
(* The device (external collaborator): what it answers to the reads of     *)
(* connect, and the pen reports it can deliver.                            *)
(***************************************************************************)
DeviceCaps ==
    [tabletMaxX |-> 4, tabletMaxY |-> 2, tabletMaxPressure |-> 100,
     width |-> 1, height |-> 1, maxReportRate |-> 200,
     deviceName |-> "STU-540", firmware |-> <<1, 0, 0, 2>>, eSerial |-> "S1"]

\* settings the device holds when it is plugged in
DeviceDefaults ==
    [backgroundColor |-> <<255, 255, 255>>, penColor |-> <<0, 0, 0>>,
     penWidth |-> 1, brightness |-> 3, inkMode |-> 1, writingMode |-> 0,
     writingArea |-> <<0, 0, 1, 1>>]

\* input reports: status word, x, y (tablet units), time, seq
InputReports ==
    { [reportId |-> penData,       status |-> 32768 + 4096 + 10, x |-> 2, y |-> 1, time |-> 0, seq |-> 0],
      [reportId |-> penDataTiming, status |-> 32768 + 4096 + 50, x |-> 4, y |-> 2, time |-> 7, seq |-> 1],
      [reportId |-> penData,       status |-> 32768,             x |-> 2, y |-> 1, time |-> 0, seq |-> 0],
      [reportId |-> 2,             status |-> 0,                 x |-> 0, y |-> 0, time |-> 0, seq |-> 0] }

\* the arguments callers pass to on()
EventNames == {"hidConnect", "hidDisconnect", "penData"}
Callbacks == {"f", "g"}

\* the arguments callers pass to the setters
Widths == {0, 3, 4}
Intensities == {0, 3, 4}
Modes == {0, 1, 2}
Areas == { <<0, 0, 1, 0>> }

\* the image a caller passes to setImage: n bytes
ImageOf(n) == [i \in 1 .. n |-> i]
ImageLen == DeviceCaps.width * DeviceCaps.height * 3
Images == { ImageOf(0), ImageOf(ImageLen) }

VARIABLES
    device,          \* #device: "null" or "dev" (the HIDDevice object)
    opened,          \* HIDDevice.opened
    opening,         \* an open() of the HIDDevice is in progress
    nListeners,      \* "inputreport" listeners registered on the HIDDevice
    dev,             \* settings held by the device
    config,          \* #config
    deviceIsSending, \* #deviceIsSending
    signaturePath,   \* #signaturePath
    svgElement,      \* children of #svgElement: the polylines, in order
    svgPolyLine,     \* #svgPolyLine
    pending,         \* feature report requests outstanding at the transport
    calls,           \* the driver calls in progress, by slot
    ret,             \* the call that returned in the last step, if any
    delivered,       \* qualifying input reports since the log was last cleared
    nUploads,        \* setImage calls that have taken the guard so far
    stimuli,         \* stimuli so far
    events,          \* #events: the subscriptions made with on(), in order
    raised,          \* the events the last step has raised, in order, each
                     \* with the callbacks it invoked
    report,          \* the input report the last step has delivered, if any
    fn               \* a helper of the driver evaluated on its own: its name,
                     \* its arguments and, once applied, its result

vars == <<device, opened, opening, nListeners, dev, config, deviceIsSending,
          signaturePath, svgElement, svgPolyLine, pending, calls, ret,
          delivered, nUploads, stimuli, events, raised, report, fn>>

\* the state of the driver
driverVars == <<device, opened, opening, nListeners, dev, config, deviceIsSending,
                signaturePath, svgElement, svgPolyLine, pending, calls, ret,
                delivered, nUploads, stimuli, events, raised, report>>

(***************************************************************************)
(* Pure helpers of the driver.                                             *)
(***************************************************************************)
\* an array slot that was never assigned
Undefined == 0 - 3
\* conversion of an array element to a byte of a Uint8Array
ToUint8(v) == IF v = Undefined THEN 0 ELSE v % 256

CeilDiv(n, d) == (n + d - 1) \div d

\* a split that leaves out the last, partial bulk
splitToBulksWhole(arr, bulkSize) ==
    [i \in 1 .. Len(arr) \div bulkSize |->
        [z \in 1 .. bulkSize |-> arr[(i - 1) * bulkSize + z]]]

\* #splitToBulks(arr, bulkSize): every bulk is an Array(bulkSize); the slots
\* past the end of arr stay undefined
splitToBulks(arr, bulkSize) ==
    [i \in 1 .. CeilDiv(Len(arr), bulkSize) |->
        [z \in 1 .. bulkSize |->
            LET x == (i - 1) * bulkSize + z
            IN  IF x <= Len(arr) THEN arr[x] ELSE Undefined]]

\* new Uint8Array([e.length, 0].concat(e))
ImageDataPayload(e) == <<ToUint8(Len(e)), 0>> \o [z \in 1 .. Len(e) |-> ToUint8(e[z])]

\* a < b on JavaScript numbers
JsLess(a, b) ==
    IF a = NaN \/ b = NaN THEN FALSE
    ELSE IF a = Infinity THEN FALSE
    ELSE IF b = Infinity THEN TRUE
    ELSE a < b

\* Math.round(x / sf), sf = <<n, d>> standing for n / d, or null
RoundDiv(x, sf) ==
    LET n == IF sf = Null THEN 0 ELSE sf[1][1]
        d == IF sf = Null THEN 1 ELSE sf[1][2]
    IN  IF d = 0 THEN (IF n = 0 THEN NaN ELSE 0)
        ELSE IF n = 0 THEN (IF x = 0 THEN NaN ELSE Infinity)
        ELSE (2 * x * d + n) \div (2 * n)

\* DataView.getUint16(offset) and getUint8(offset): big-endian, offset from 0
GetUint16(dv, offset) == 256 * dv[offset + 1] + dv[offset + 2]
GetUint8(dv, offset) == dv[offset + 1]

\* what #onHidInputReport reads of an input report: event.reportId and the
\* 16-bit fields of event.data at offsets 0, 2, 4, 6 and 8 (event.data does
\* not hold the report id)
ReportFields(reportId, data) ==
    [reportId |-> reportId, status |-> GetUint16(data, 0),
     x |-> GetUint16(data, 2), y |-> GetUint16(data, 4),
     time |-> IF Len(data) >= 8 THEN GetUint16(data, 6) ELSE 0,
     seq |-> IF Len(data) >= 10 THEN GetUint16(data, 8) ELSE 0]

\* lines 234-241: the fields of the capability report dv (the report id is
\* its byte 0); a scale factor is kept as the pair <<numerator, denominator>>
CapabilityFields(cfg, dv) ==
    [cfg EXCEPT !.tabletMaxX = Some(GetUint16(dv, 1)),
                !.tabletMaxY = Some(GetUint16(dv, 3)),
                !.tabletMaxPressure = Some(GetUint16(dv, 5)),
                !.width = Some(GetUint16(dv, 7)),
                !.height = Some(GetUint16(dv, 9)),
                !.maxReportRate = Some(GetUint8(dv, 11)),
                !.scaleFactorX = Some(<<GetUint16(dv, 1), GetUint16(dv, 7)>>),
                !.scaleFactorY = Some(<<GetUint16(dv, 3), GetUint16(dv, 9)>>)]

\* the device side: a 16-bit value as two bytes, high byte first, and the
\* capability report of a device
Uint16BE(v) == <<(v \div 256) % 256, v % 256>>
CapabilityReport(caps) ==
    <<capability>> \o Uint16BE(caps.tabletMaxX) \o Uint16BE(caps.tabletMaxY)
        \o Uint16BE(caps.tabletMaxPressure) \o Uint16BE(caps.width)
        \o Uint16BE(caps.height) \o <<caps.maxReportRate>>

\* the settings the drawing pass reads
Capture(cfg) ==
    [inkMode |-> cfg.inkMode, writingArea |-> cfg.writingArea,
     writingMode |-> cfg.writingMode, penColor |-> cfg.penColor,
     penWidth |-> cfg.penWidth]

\* a decoder that scales both axes with the factor of the x axis
DecodePacketOneScale(cfg, e) ==
    [rdy    |-> (e.status \div 32768) % 2 = 1,
     sw     |-> (e.status \div 4096) % 2 = 1,
     press  |-> e.status % 1024,
     cpress |-> [n |-> e.status % 1024, d |-> Num(cfg.tabletMaxPressure)],
     cx     |-> RoundDiv(e.x, cfg.scaleFactorX),
     cy     |-> RoundDiv(e.y, cfg.scaleFactorX),
     x      |-> e.x,
     y      |-> e.y,
     seq    |-> IF e.reportId = penDataTiming THEN Some(e.seq) ELSE Null,
     time   |-> IF e.reportId = penDataTiming THEN Some(e.time) ELSE Null,
     cap    |-> Capture(cfg)]

\* the packet #onHidInputReport builds from an input report (cap is not a
\* field of the packet: it records the settings under which the sample was
\* captured)
DecodePacket(cfg, e) ==
    [rdy    |-> (e.status \div 32768) % 2 = 1,
     sw     |-> (e.status \div 4096) % 2 = 1,
     press  |-> e.status % 1024,
     cpress |-> [n |-> e.status % 1024, d |-> Num(cfg.tabletMaxPressure)],
     cx     |-> RoundDiv(e.x, cfg.scaleFactorX),
     cy     |-> RoundDiv(e.y, cfg.scaleFactorY),
     x      |-> e.x,
     y      |-> e.y,
     seq    |-> IF e.reportId = penDataTiming THEN Some(e.seq) ELSE Null,
     time   |-> IF e.reportId = penDataTiming THEN Some(e.time) ELSE Null,
     cap    |-> Capture(cfg)]

\* a comparison with the threshold 0.5
PressureJumpLoose(a, b) ==
    LET diff == a.n * b.d - b.n * a.d
        abs  == IF diff < 0 THEN 0 - diff ELSE diff
    IN  IF a.d = 0 \/ b.d = 0 THEN FALSE ELSE 2 * abs > a.d * b.d

\* Math.abs(a - b) > 0.02 on two cpress values n / d (n / 0 is NaN for n = 0
\* and Infinity otherwise); exact arithmetic
PressureJump(a, b) ==
    LET nanA == a.d = 0 /\ a.n = 0
        nanB == b.d = 0 /\ b.n = 0
        infA == a.d = 0 /\ a.n # 0
        infB == b.d = 0 /\ b.n # 0
        diff == a.n * b.d - b.n * a.d
        abs  == IF diff < 0 THEN 0 - diff ELSE diff
    IN  IF nanA \/ nanB THEN FALSE
        ELSE IF infA /\ infB THEN FALSE
        ELSE IF infA \/ infB THEN TRUE
        ELSE 50 * abs > a.d * b.d

\* a check of the writing area that forgets the y axis
isInWritingAreaXOnly(cfg, x, y) ==
    IF cfg.writingArea = Null THEN TRUE
    ELSE LET area == cfg.writingArea[1]
         IN  IF JsLess(x, area[1]) \/ JsLess(area[3], x) THEN FALSE
             ELSE TRUE

\* #isInWritingArea(x, y)
isInWritingArea(cfg, x, y) ==
    IF cfg.writingArea = Null THEN TRUE
    ELSE LET area == cfg.writingArea[1]
         IN  IF JsLess(x, area[1]) \/ JsLess(area[3], x) THEN FALSE
             ELSE IF JsLess(y, area[2]) \/ JsLess(area[4], y) THEN FALSE
             ELSE TRUE

\* a width that ignores the writing mode
StrokeWidthFixed(cfg, path) ==
    IF cfg.penWidth = Some(0) THEN [n |-> 5, d |-> 10]
    ELSE IF cfg.penWidth = Some(1) THEN [n |-> 20, d |-> 10]
    ELSE IF cfg.penWidth = Some(2) THEN [n |-> 30, d |-> 10]
    ELSE IF cfg.penWidth = Some(3) THEN [n |-> 45, d |-> 10]
    ELSE [n |-> 10, d |-> 10]

\* stroke width chosen by #startPolyLine, as the fraction n / d
StrokeWidth(cfg, path) ==
    IF Len(path) > 0 /\ cfg.writingMode = Some(1)
    THEN LET p == path[Len(path)].cpress
         IN  [n |-> 2 * p.d + 3 * p.n, d |-> 2 * p.d]
    ELSE IF cfg.penWidth = Some(0) THEN [n |-> 5, d |-> 10]
    ELSE IF cfg.penWidth = Some(1) THEN [n |-> 20, d |-> 10]
    ELSE IF cfg.penWidth = Some(2) THEN [n |-> 30, d |-> 10]
    ELSE IF cfg.penWidth = Some(3) THEN [n |-> 45, d |-> 10]
    ELSE [n |-> 10, d |-> 10]

(***************************************************************************)
(* The drawing state: path is #signaturePath, svg the polylines appended   *)
(* to #svgElement, poly is #svgPolyLine: null, the last polyline of svg,   *)
(* or a polyline that was created but never appended (detached).           *)
(***************************************************************************)
NoSeg == [points |-> <<>>, strokeWidth |-> [n |-> 0, d |-> 0], stroke |-> <<>>]
NullPoly == [ref |-> "null", seg |-> NoSeg]

\* #startPolyLine(): the new polyline is stored in #svgPolyLine first; the
\* stroke attribute reads #config.penColor.join, which throws on null, and
\* then the polyline is never appended
startPolyLine(cfg, st) ==
    LET seg == [points |-> <<>>, strokeWidth |-> StrokeWidth(cfg, st.path),
                stroke |-> Num(cfg.penColor)]
    IN  IF cfg.penColor = Null
        THEN [st EXCEPT !.poly = [ref |-> "detached", seg |-> [seg EXCEPT !.stroke = <<>>]],
                        !.threw = TRUE]
        ELSE [st EXCEPT !.svg = Append(st.svg, seg),
                        !.poly = [ref |-> "last", seg |-> NoSeg]]

\* a point that goes to the first polyline of the scene
addPolyPointToFirst(st, x, y) ==
    IF st.poly.ref = "last"
    THEN [st EXCEPT !.svg[1].points = Append(@, <<x, y>>)]
    ELSE [st EXCEPT !.poly.seg.points = Append(@, <<x, y>>)]

\* #addPolyPoint(x, y)
addPolyPoint(st, x, y) ==
    IF st.poly.ref = "last"
    THEN [st EXCEPT !.svg[Len(st.svg)].points = Append(@, <<x, y>>)]
    ELSE [st EXCEPT !.poly.seg.points = Append(@, <<x, y>>)]

\* a pass that leaves the polyline open at a sample that is not drawn
DrawPointKeepOpen(cfg, st, i) ==
    LET point == st.path[i]
        drawable == /\ point.rdy
                    /\ point.sw
                    /\ cfg.inkMode = Some(TRUE)
                    /\ isInWritingArea(cfg, point.cx, point.cy)
    IN  IF drawable
        THEN IF st.poly.ref = "null"
             THEN LET s1 == startPolyLine(cfg, st)
                  IN  IF s1.threw THEN s1 ELSE addPolyPoint(s1, point.cx, point.cy)
             ELSE IF i > 1 /\ PressureJump(point.cpress, st.path[i - 1].cpress)
             THEN LET s1 == startPolyLine(cfg, addPolyPoint(st, point.cx, point.cy))
                  IN  IF s1.threw THEN s1 ELSE addPolyPoint(s1, point.cx, point.cy)
             ELSE addPolyPoint(st, point.cx, point.cy)
        ELSE st

\* one pass of the loop of #drawSignaturePathToCanvas, for the i-th sample
DrawPoint(cfg, st, i) ==
    LET point == st.path[i]
        drawable == /\ point.rdy
                    /\ point.sw
                    /\ cfg.inkMode = Some(TRUE)
                    /\ isInWritingArea(cfg, point.cx, point.cy)
    IN  IF drawable
        THEN IF st.poly.ref = "null"
             THEN LET s1 == startPolyLine(cfg, st)
                  IN  IF s1.threw THEN s1 ELSE addPolyPoint(s1, point.cx, point.cy)
             ELSE IF i > 1 /\ PressureJump(point.cpress, st.path[i - 1].cpress)
             THEN LET s1 == startPolyLine(cfg, addPolyPoint(st, point.cx, point.cy))
                  IN  IF s1.threw THEN s1 ELSE addPolyPoint(s1, point.cx, point.cy)
             ELSE addPolyPoint(st, point.cx, point.cy)
        ELSE IF st.poly.ref # "null"
        THEN [st EXCEPT !.poly = NullPoly]
        ELSE st

\* #drawSignaturePathToCanvas(fromOffset), the loop from sample i on; an
\* exception of #startPolyLine ends it
RECURSIVE DrawFrom(_, _, _)
DrawFrom(cfg, st, i) ==
    IF i > Len(st.path) \/ st.threw THEN st
    ELSE DrawFrom(cfg, DrawPoint(cfg, st, i), i + 1)

\* #drawSignaturePathToCanvas(this.#signaturePath.length - 1), line 685
drawSignaturePathToCanvas(cfg, st) == DrawFrom(cfg, st, Len(st.path))

\* a handler that takes every report for a pen report
QualifiesAny(e) == TRUE

\* the condition of line 661
Qualifies(e) == e.reportId = penData \/ e.reportId = penDataTiming

\* the loop of #raiseEvent(eventName, args), lines 650-654, from
\* subscription i on: the calls it makes, in order (sub: the position of the
\* subscription in #events)
RECURSIVE raiseEventFrom(_, _, _, _)
raiseEventFrom(evs, eventName, args, i) ==
    IF i > Len(evs) THEN <<>>
    ELSE (IF evs[i].eventName = eventName
          THEN <<[sub |-> i, callbackFn |-> evs[i].callbackFn, args |-> args]>>
          ELSE <<>>)
         \o raiseEventFrom(evs, eventName, args, i + 1)

\* a dispatch that calls the latest subscription first
raiseEventReversed(evs, eventName, args) ==
    LET fwd == raiseEventFrom(evs, eventName, args, 1)
    IN  [eventName |-> eventName, args |-> args,
         calls |-> [j \in 1 .. Len(fwd) |-> fwd[Len(fwd) + 1 - j]]]

\* #raiseEvent(eventName, args), lines 649-655: the event and the calls made
raiseEvent(evs, eventName, args) ==
    [eventName |-> eventName, args |-> args,
     calls |-> raiseEventFrom(evs, eventName, args, 1)]

\* #onHidInputReport(event), one listener: the packet is logged and drawn,
\* then the penData event is raised (not reached when the drawing throws)
onHidInputReport(cfg, st, e) ==
    IF Qualifies(e)
    THEN LET packet == DecodePacket(cfg, e)
             s1 == drawSignaturePathToCanvas(cfg,
                       [st EXCEPT !.path = Append(st.path, packet), !.threw = FALSE])
         IN  IF s1.threw THEN s1
             ELSE [s1 EXCEPT !.inv = Append(@, raiseEvent(events, "penData", <<packet>>))]
    ELSE st

\* the event is dispatched to every registered listener in turn; a listener
\* that throws does not stop the others
RECURSIVE DispatchInputReport(_, _, _, _)
DispatchInputReport(cfg, st, e, k) ==
    IF k = 0 THEN st
    ELSE DispatchInputReport(cfg, onHidInputReport(cfg, st, e), e, k - 1)

\* a clear that forgets the open polyline
clearSignatureDataKeepPoly(st) == [st EXCEPT !.path = <<>>, !.svg = <<>>]

\* #clearSignatureData()
clearSignatureData(st) == [st EXCEPT !.path = <<>>, !.svg = <<>>, !.poly = NullPoly]

(***************************************************************************)
(* Initial state: the driver after its constructor (lines 25-115).         *)
(***************************************************************************)
\* a profile that starts with inking taken to be on
NullConfigInkOn ==
    [width |-> Null, height |-> Null, scaleFactorX |-> Null, scaleFactorY |-> Null,
     tabletMaxPressure |-> Null, maxReportRate |-> Null, tabletMaxX |-> Null,
     tabletMaxY |-> Null, penColor |-> Null, penWidth |-> Null,
     backgroundColor |-> Null, brightness |-> Null, inkMode |-> Some(TRUE),
     writingMode |-> Null, writingArea |-> Null, deviceName |-> Null,
     firmware |-> Null, eSerial |-> Null]

NullConfig ==
    [width |-> Null, height |-> Null, scaleFactorX |-> Null, scaleFactorY |-> Null,
     tabletMaxPressure |-> Null, maxReportRate |-> Null, tabletMaxX |-> Null,
     tabletMaxY |-> Null, penColor |-> Null, penWidth |-> Null,
     backgroundColor |-> Null, brightness |-> Null, inkMode |-> Null,
     writingMode |-> Null, writingArea |-> Null, deviceName |-> Null,
     firmware |-> Null, eSerial |-> Null]

\* the fields of #config that come from the device
DeviceFields == DOMAIN NullConfig

\* getTabletInfo(), lines 291-297 (without the timestamp)
getTabletInfo(cfg, connected) == [connected |-> connected, profile |-> cfg]

\* a free call slot
\* (tryCnt: the local of setImage; nHeld: guard checks that found the guard
\* held; uid: number of the upload; sent: the reports the call has handed to
\* the device; log0: length of the sample log when the call was made; over:
\* the uploads that were in progress at some time since the call was made;
\* param: the arguments of a setter; dataRejected: a writeImageData report of
\* the call was rejected)
Idle == [op |-> "idle", pc |-> "idle", tryCnt |-> 0, nHeld |-> 0, uid |-> 0,
         sent |-> <<>>, img |-> <<>>, arg |-> 0, log0 |-> 0, over |-> {},
         param |-> <<>>, dataRejected |-> FALSE]

NoRet == [op |-> "none", result |-> "none", tryCnt |-> 0, nHeld |-> 0, uid |-> 0,
          sent |-> <<>>, img |-> <<>>, log0 |-> 0, logEnd |-> 0,
          param |-> <<>>, dataRejected |-> FALSE]

\* what is known of a call when it returns; logEnd is the length of the
\* sample log when the returning run began
Returned(rec, result) ==
    [op |-> rec.op, result |-> result, tryCnt |-> rec.tryCnt, nHeld |-> rec.nHeld,
     uid |-> rec.uid, sent |-> rec.sent, img |-> rec.img, log0 |-> rec.log0,
     logEnd |-> Len(signaturePath), param |-> rec.param,
     dataRejected |-> rec.dataRejected]

\* the record of a call that starts now
NewCall(op) == [Idle EXCEPT !.op = op, !.log0 = Len(signaturePath)]

\* no helper is under evaluation
NoFn == [f |-> "none", in |-> <<>>, out |-> <<>>]

Init ==
    /\ device = "null"
    /\ opened = FALSE
    /\ opening = FALSE
    /\ nListeners = 0
    /\ dev = DeviceDefaults
    /\ config = NullConfig
    /\ deviceIsSending = FALSE
    /\ signaturePath = <<>>
    /\ svgElement = <<>>
    /\ svgPolyLine = NullPoly
    /\ pending = {}
    /\ calls = [c \in Calls |-> Idle]
    /\ ret = NoRet
    /\ delivered = <<>>
    /\ nUploads = 0
    /\ stimuli = 0
    /\ events = <<>>
    /\ raised = <<>>
    /\ report = Null
    /\ fn = NoFn

(***************************************************************************)
(* Shorthands.                                                             *)
(***************************************************************************)
\* isConnected()
isConnected == device # "null" /\ opened

DrawSt == [path |-> signaturePath, svg |-> svgElement, poly |-> svgPolyLine,
           threw |-> FALSE, inv |-> <<>>]

SetDraw(st) ==
    /\ signaturePath' = st.path
    /\ svgElement' = st.svg
    /\ svgPolyLine' = st.poly

\* something outside the driver acts
Stimulus == stimuli < MaxStimuli /\ stimuli' = stimuli + 1

\* a feature report request handed to the HIDDevice
Request(c, uid, kind, reportId, idx, data, awaited) ==
    [call |-> c, uid |-> uid, kind |-> kind, reportId |-> reportId, idx |-> idx,
     data |-> data, awaited |-> awaited, over |-> calls[c].over]

\* what the calling code records of a report it issued
Wire(reportId, data) == [reportId |-> reportId, data |-> data]

\* the call returns (or throws): its slot is free again
Return(c, rec, result) ==
    /\ calls' = [calls EXCEPT ![c] = Idle]
    /\ ret' = Returned(rec, result)

\* the transport settles request r: fulfilled (ok) or rejected
Settle(r, ok) ==
    /\ r \in pending
    /\ IF ok THEN stimuli' = stimuli ELSE Stimulus

\* a new call runs in the first free slot
FreeSlot(c) == calls[c] = Idle /\ \A d \in Calls : d < c => calls[d] # Idle

Awaiting(r, op, pc) ==
    /\ r.awaited
    /\ calls[r.call].op = op
    /\ calls[r.call].pc = pc

(***************************************************************************)
(* setImage(imageData), lines 601-637.                                     *)
(***************************************************************************)
\* the end of an upload that does not clear the signature
SetImageFinishNoClear(c, rec) ==
    /\ UNCHANGED <<signaturePath, svgElement, svgPolyLine, delivered>>
    /\ deviceIsSending' = FALSE
    /\ Return(c, rec, "ok")

\* lines 633-636: the upload is over
SetImageFinish(c, rec) ==
    /\ SetDraw(clearSignatureData(DrawSt))
    /\ delivered' = <<>>
    /\ deviceIsSending' = FALSE
    /\ Return(c, rec, "ok")

\* a loop that allows one wait more
MayRetryOneMore(tryCnt) == tryCnt <= MaxTry

\* the condition of line 613
MayRetry(tryCnt) == tryCnt < MaxTry

\* the writeImageData reports of lines 627-629: the callback of forEach is
\* async and nobody awaits its promise, so all of them are handed to the
\* device in this one run, in the order of the bulks
ImageDataRequests(c, rec, bulks) ==
    { Request(c, rec.uid, "send", writeImageData, i, ImageDataPayload(bulks[i]), FALSE) :
        i \in 1 .. Len(bulks) }

ImageDataWire(bulks) ==
    [i \in 1 .. Len(bulks) |-> Wire(writeImageData, ImageDataPayload(bulks[i]))]

\* lines 620-625: take the guard, split, send writeImageStart.  #sendData
\* returns without sending when the session is not open; then the run goes
\* on through lines 627-636 with nothing sent.
SetImageTakeGuard(c, rec0) ==
    LET rec == [rec0 EXCEPT !.uid = nUploads + 1] IN
    /\ nUploads' = nUploads + 1
    /\ IF isConnected
       THEN /\ deviceIsSending' = TRUE
            /\ pending' = pending \cup
                   { [Request(c, rec.uid, "send", writeImageStart, 0, <<imageFormat24BGR>>, TRUE)
                         EXCEPT !.over = rec.over] }
            /\ calls' = [d \in Calls |->
                   IF d = c
                   THEN [rec EXCEPT !.pc = "start",
                                    !.sent = <<Wire(writeImageStart, <<imageFormat24BGR>>)>>]
                   ELSE IF calls[d].op = "setImage"
                   THEN [calls[d] EXCEPT !.over = @ \cup {rec.uid}]
                   ELSE calls[d]]
            /\ ret' = NoRet
            /\ UNCHANGED <<signaturePath, svgElement, svgPolyLine, delivered>>
       ELSE /\ pending' = pending
            /\ SetImageFinish(c, rec)

\* a guard that is taken without looking at it
SetImageGuardNoCheck(c, rec) == SetImageTakeGuard(c, rec)

\* lines 611-620: one check of the guard
SetImageGuard(c, rec) ==
    IF deviceIsSending
    THEN /\ IF MayRetry(rec.tryCnt)
            THEN /\ calls' = [calls EXCEPT ![c] =
                        [rec EXCEPT !.pc = "wait", !.tryCnt = @ + 1, !.nHeld = @ + 1]]
                 /\ ret' = NoRet
            ELSE Return(c, [rec EXCEPT !.nHeld = @ + 1], "Busy")
         /\ UNCHANGED <<deviceIsSending, pending, nUploads, signaturePath,
                        svgElement, svgPolyLine, delivered>>
    ELSE SetImageTakeGuard(c, rec)

\* a check that only refuses a buffer that is too large
ValidImageNotLarger(img) == Len(img) <= Num(config.width) * Num(config.height) * 3

\* the condition of line 605, negated
ValidImage(img) == Len(img) = Num(config.width) * Num(config.height) * 3

\* a caller invokes setImage
SetImageCall(c, img) ==
    /\ FreeSlot(c)
    /\ Stimulus
    /\ LET rec == [NewCall("setImage") EXCEPT
                      !.img = img,
                      !.over = { calls[d].uid : d \in { e \in Calls : calls[e].uid > 0 } }] IN
       IF ~isConnected
       THEN /\ Return(c, rec, "NotConnected")
            /\ UNCHANGED <<deviceIsSending, pending, nUploads, signaturePath,
                           svgElement, svgPolyLine, delivered>>
       ELSE IF ~ValidImage(img)
       THEN /\ Return(c, rec, "InvalidParameter")
            /\ UNCHANGED <<deviceIsSending, pending, nUploads, signaturePath,
                           svgElement, svgPolyLine, delivered>>
       ELSE SetImageGuard(c, rec)
    /\ UNCHANGED <<device, opened, opening, nListeners, dev, config>>

\* the timer of #wait(500) fires: the loop of line 612 checks again
SetImageTimer(c) ==
    /\ calls[c].op = "setImage"
    /\ calls[c].pc = "wait"
    /\ SetImageGuard(c, calls[c])
    /\ UNCHANGED <<device, opened, opening, nListeners, dev, config, stimuli>>

\* writeImageStart is settled: lines 627-631 run, or line 625 throws
SetImageStartSettled(r, ok) ==
    /\ Settle(r, ok)
    /\ Awaiting(r, "setImage", "start")
    /\ LET c == r.call
           rec == calls[c]
           bulks == splitToBulks(rec.img, ChunkSize)
       IN  IF ~ok
           THEN /\ pending' = pending \ {r}
                /\ Return(c, rec, "TransportError")
                /\ UNCHANGED <<deviceIsSending, signaturePath, svgElement,
                               svgPolyLine, delivered>>
           ELSE IF isConnected
           THEN /\ pending' = (pending \ {r})
                       \cup ImageDataRequests(c, rec, bulks)
                       \cup { Request(c, rec.uid, "send", writeImageEnd, 0, <<0>>, TRUE) }
                /\ calls' = [calls EXCEPT ![c] =
                       [rec EXCEPT !.pc = "end",
                                   !.sent = @ \o ImageDataWire(bulks)
                                              \o <<Wire(writeImageEnd, <<0>>)>>]]
                /\ ret' = NoRet
                /\ UNCHANGED <<deviceIsSending, signaturePath, svgElement,
                               svgPolyLine, delivered>>
           ELSE /\ pending' = pending \ {r}
                /\ SetImageFinish(c, rec)
    /\ UNCHANGED <<device, opened, opening, nListeners, dev, config, nUploads>>

\* a writeImageData report is settled: nothing waits for it, and a
\* rejection goes unhandled
SetImageDataSettled(r, ok) ==
    /\ Settle(r, ok)
    /\ r.reportId = writeImageData
    /\ pending' = pending \ {r}
    /\ ret' = NoRet
    /\ calls' = IF ~ok /\ calls[r.call].uid = r.uid
                THEN [calls EXCEPT ![r.call].dataRejected = TRUE]
                ELSE calls
    /\ UNCHANGED <<device, opened, opening, nListeners, dev, config,
                   deviceIsSending, signaturePath, svgElement, svgPolyLine,
                   delivered, nUploads>>

\* writeImageEnd is settled: lines 633-636 run, or line 631 throws
SetImageEndSettled(r, ok) ==
    /\ Settle(r, ok)
    /\ Awaiting(r, "setImage", "end")
    /\ pending' = pending \ {r}
    /\ IF ok
       THEN SetImageFinish(r.call, calls[r.call])
       ELSE /\ Return(r.call, calls[r.call], "TransportError")
            /\ UNCHANGED <<deviceIsSending, signaturePath, svgElement,
                           svgPolyLine, delivered>>
    /\ UNCHANGED <<device, opened, opening, nListeners, dev, config, nUploads>>

(***************************************************************************)
(* clearScreen(), lines 542-553.                                           *)
(***************************************************************************)
ClearScreenCall(c) ==
    /\ FreeSlot(c)
    /\ Stimulus
    /\ LET rec == NewCall("clearScreen") IN
       IF ~isConnected
       THEN /\ Return(c, rec, "NotConnected")
            /\ pending' = pending
       ELSE /\ pending' = pending \cup
                   { Request(c, 0, "send", clearScreen, 0, <<0>>, TRUE) }
            /\ calls' = [calls EXCEPT ![c] =
                   [rec EXCEPT !.pc = "send", !.sent = <<Wire(clearScreen, <<0>>)>>]]
            /\ ret' = NoRet
    /\ UNCHANGED <<device, opened, opening, nListeners, dev, config,
                   deviceIsSending, signaturePath, svgElement, svgPolyLine,
                   delivered, nUploads>>

\* the result of line 552, which reads #config.backgroundColor.join
ClearScreenResult == IF config.backgroundColor = Null THEN "TypeError" ELSE "ok"

\* the clear screen report is settled: lines 549-552 run, or line 546 throws
ClearScreenSettled(r, ok) ==
    /\ Settle(r, ok)
    /\ Awaiting(r, "clearScreen", "send")
    /\ pending' = pending \ {r}
    /\ IF ok
       THEN /\ SetDraw(clearSignatureData(DrawSt))
            /\ delivered' = <<>>
            /\ Return(r.call, calls[r.call], ClearScreenResult)
       ELSE /\ Return(r.call, calls[r.call], "TransportError")
            /\ UNCHANGED <<signaturePath, svgElement, svgPolyLine, delivered>>
    /\ UNCHANGED <<device, opened, opening, nListeners, dev, config,
                   deviceIsSending, nUploads>>

(***************************************************************************)
(* setInking(enabled), lines 528-537.                                      *)
(***************************************************************************)
SetInkingCall(c, enabled) ==
    /\ FreeSlot(c)
    /\ Stimulus
    /\ LET rec == [NewCall("setInking") EXCEPT !.arg = enabled] IN
       IF ~isConnected
       THEN /\ Return(c, rec, "NotConnected")
            /\ pending' = pending
       ELSE /\ pending' = pending \cup
                   { Request(c, 0, "send", inkMode, 0, <<enabled>>, TRUE) }
            /\ calls' = [calls EXCEPT ![c] =
                   [rec EXCEPT !.pc = "send", !.sent = <<Wire(inkMode, <<enabled>>)>>]]
            /\ ret' = NoRet
    /\ UNCHANGED <<device, opened, opening, nListeners, dev, config,
                   deviceIsSending, signaturePath, svgElement, svgPolyLine,
                   delivered, nUploads>>

SetInkingSettled(r, ok) ==
    /\ Settle(r, ok)
    /\ Awaiting(r, "setInking", "send")
    /\ pending' = pending \ {r}
    /\ IF ok
       THEN /\ dev' = [dev EXCEPT !.inkMode = r.data[1]]
            /\ config' = [config EXCEPT !.inkMode = Some(calls[r.call].arg = 1)]
            /\ Return(r.call, calls[r.call], "ok")
       ELSE /\ Return(r.call, calls[r.call], "TransportError")
            /\ UNCHANGED <<dev, config>>
    /\ UNCHANGED <<device, opened, opening, nListeners, deviceIsSending,
                   signaturePath, svgElement, svgPolyLine, delivered, nUploads>>

(***************************************************************************)
(* The other setters, lines 410-522.  A colour argument is a string: a     *)
(* sequence of characters, the hex digits as 0 .. 15 and "#" as Hash.      *)
(***************************************************************************)
Hash == 16
Red == <<Hash, 15, 15, 0, 0, 0, 0>>
White == <<Hash, 15, 15, 15, 15, 15, 15>>

\* color.replace('#', ''): the first "#" is removed
StripHash(color) ==
    IF \E i \in 1 .. Len(color) : color[i] = Hash
    THEN LET i == CHOOSE i \in 1 .. Len(color) :
                      color[i] = Hash /\ \A j \in 1 .. i - 1 : color[j] # Hash
         IN  SubSeq(color, 1, i - 1) \o SubSeq(color, i + 1, Len(color))
    ELSE color

\* a parser that leaves the "#" in the string
ParseColorKeepHash(color) ==
    [i \in 1 .. CeilDiv(Len(color), 2) |->
        IF 2 * i <= Len(color) THEN 16 * color[2 * i - 1] + color[2 * i]
        ELSE color[2 * i - 1]]

\* .split(/(?<=^(?:.{2})+)(?!$)/).map(e => parseInt("0x" + e, 16)): the
\* string is cut into pairs of characters (the last piece is a single
\* character when the length is odd) and each piece is read as a hex number
ParseColor(color) ==
    LET str == StripHash(color)
    IN  IF str = <<>> THEN <<NaN>>
        ELSE [i \in 1 .. CeilDiv(Len(str), 2) |->
                 IF 2 * i <= Len(str) THEN 16 * str[2 * i - 1] + str[2 * i]
                 ELSE str[2 * i - 1]]

\* c[i - 1] of a JavaScript array
At(c, i) == IF i <= Len(c) THEN c[i] ELSE Undefined

\* new Uint8Array(c)
Uint8Array(c) == [i \in 1 .. Len(c) |-> IF c[i] = NaN THEN 0 ELSE ToUint8(c[i])]

\* DataView.setUint16(offset, v, true) and getUint16(offset, true)
Uint16LE(v) == <<v % 256, (v \div 256) % 256>>
GetUint16LE(data, i) == data[i] + 256 * data[i + 1]

\* a range check that lets 4 pass
InZeroToFour(v) == v \in {0, 1, 2, 3, 4}

\* [0, 1, 2, 3].indexOf(v) !== -1 and [0, 1].indexOf(v) !== -1
InZeroToThree(v) == v \in {0, 1, 2, 3}
InZeroOne(v) == v \in {0, 1}

\* a first run that forgets the connection check
SetterCallNoCheck(c, op, param, valid, kind, reportId, data) ==
    /\ FreeSlot(c)
    /\ Stimulus
    /\ LET rec == [NewCall(op) EXCEPT !.param = param] IN
       IF ~valid
       THEN /\ Return(c, rec, "InvalidParameter")
            /\ pending' = pending
       ELSE /\ pending' = pending \cup { Request(c, 0, kind, reportId, 0, data, TRUE) }
            /\ calls' = [calls EXCEPT ![c] =
                   [rec EXCEPT !.pc = kind,
                               !.sent = IF kind = "send" THEN <<Wire(reportId, data)>>
                                        ELSE <<>>]]
            /\ ret' = NoRet
    /\ UNCHANGED <<device, opened, opening, nListeners, dev, config,
                   deviceIsSending, signaturePath, svgElement, svgPolyLine,
                   delivered, nUploads>>

\* the first run of a setter: the connection check, the parameter check,
\* then the first feature report (kind "send" or "recv") is handed over
SetterCall(c, op, param, valid, kind, reportId, data) ==
    /\ FreeSlot(c)
    /\ Stimulus
    /\ LET rec == [NewCall(op) EXCEPT !.param = param] IN
       IF ~isConnected
       THEN /\ Return(c, rec, "NotConnected")
            /\ pending' = pending
       ELSE IF ~valid
       THEN /\ Return(c, rec, "InvalidParameter")
            /\ pending' = pending
       ELSE /\ pending' = pending \cup { Request(c, 0, kind, reportId, 0, data, TRUE) }
            /\ calls' = [calls EXCEPT ![c] =
                   [rec EXCEPT !.pc = kind,
                               !.sent = IF kind = "send" THEN <<Wire(reportId, data)>>
                                        ELSE <<>>]]
            /\ ret' = NoRet
    /\ UNCHANGED <<device, opened, opening, nListeners, dev, config,
                   deviceIsSending, signaturePath, svgElement, svgPolyLine,
                   delivered, nUploads>>

\* a setter that stores the value whether the write succeeded or not
SetterSendSettledStoreFirst(r, ok, op, newDev, newConfig) ==
    /\ Settle(r, ok)
    /\ Awaiting(r, op, "send")
    /\ pending' = pending \ {r}
    /\ config' = newConfig
    /\ IF ok
       THEN /\ dev' = newDev
            /\ Return(r.call, calls[r.call], "ok")
       ELSE /\ Return(r.call, calls[r.call], "TransportError")
            /\ dev' = dev
    /\ UNCHANGED <<device, opened, opening, nListeners, deviceIsSending,
                   signaturePath, svgElement, svgPolyLine, delivered, nUploads>>

\* the write of a setter is settled: the setter stores the value in #config
\* (newConfig) and the device holds it (newDev), or the await throws
SetterSendSettled(r, ok, op, newDev, newConfig) ==
    /\ Settle(r, ok)
    /\ Awaiting(r, op, "send")
    /\ pending' = pending \ {r}
    /\ IF ok
       THEN /\ dev' = newDev
            /\ config' = newConfig
            /\ Return(r.call, calls[r.call], "ok")
       ELSE /\ Return(r.call, calls[r.call], "TransportError")
            /\ UNCHANGED <<dev, config>>
    /\ UNCHANGED <<device, opened, opening, nListeners, deviceIsSending,
                   signaturePath, svgElement, svgPolyLine, delivered, nUploads>>

\* the read a setter makes first is settled: the setter returns when the
\* device holds the value already (same), else it sends the value; #sendData
\* returns without sending when the session is not open, and the setter
\* stores the value all the same
SetterReadSettled(r, ok, op, same, reportId, data, newConfig) ==
    /\ Settle(r, ok)
    /\ Awaiting(r, op, "recv")
    /\ LET c == r.call
           rec == calls[c]
       IN  IF ~ok
           THEN /\ pending' = pending \ {r}
                /\ Return(c, rec, "TransportError")
                /\ config' = config
           ELSE IF same
           THEN /\ pending' = pending \ {r}
                /\ Return(c, rec, "ok")
                /\ config' = config
           ELSE IF isConnected
           THEN /\ pending' = (pending \ {r}) \cup
                       { Request(c, 0, "send", reportId, 0, data, TRUE) }
                /\ calls' = [calls EXCEPT ![c] =
                       [rec EXCEPT !.pc = "send", !.sent = <<Wire(reportId, data)>>]]
                /\ ret' = NoRet
                /\ config' = config
           ELSE /\ pending' = pending \ {r}
                /\ Return(c, rec, "ok")
                /\ config' = newConfig
    /\ UNCHANGED <<device, opened, opening, nListeners, dev, deviceIsSending,
                   signaturePath, svgElement, svgPolyLine, delivered, nUploads>>

\* setPenColorAndWidth(color, width), lines 410-427
PenColorAndWidthArray(param) == ParseColor(param[1]) \o <<param[2]>>

SetPenColorAndWidthCall(c, color, width) ==
    SetterCall(c, "setPenColorAndWidth", <<color, width>>, InZeroToThree(width),
               "send", penColorAndWidth,
               Uint8Array(PenColorAndWidthArray(<<color, width>>)))

SetPenColorAndWidthSettled(r, ok) ==
    LET c == PenColorAndWidthArray(calls[r.call].param) IN
    SetterSendSettled(r, ok, "setPenColorAndWidth",
        [dev EXCEPT !.penColor = <<At(r.data, 1), At(r.data, 2), At(r.data, 3)>>,
                    !.penWidth = At(r.data, 4)],
        [config EXCEPT !.penColor = Some(<<At(c, 1), At(c, 2), At(c, 3)>>),
                       !.penWidth = Some(At(c, 4))])

\* setBrightness(intensity), lines 435-453
SetBrightnessCall(c, intensity) ==
    SetterCall(c, "setBrightness", <<intensity>>, InZeroToThree(intensity),
               "recv", brightness, <<>>)

SetBrightnessReadSettled(r, ok) ==
    LET intensity == calls[r.call].param[1] IN
    SetterReadSettled(r, ok, "setBrightness", dev.brightness = intensity,
        brightness, Uint8Array(<<intensity, 0>>),
        [config EXCEPT !.brightness = Some(intensity)])

SetBrightnessSettled(r, ok) ==
    SetterSendSettled(r, ok, "setBrightness",
        [dev EXCEPT !.brightness = r.data[1]],
        [config EXCEPT !.brightness = Some(calls[r.call].param[1])])

\* setBackgroundColor(color), lines 460-478
SetBackgroundColorCall(c, color) ==
    SetterCall(c, "setBackgroundColor", <<color>>, TRUE,
               "recv", backgroundColor, <<>>)

SetBackgroundColorReadSettled(r, ok) ==
    LET c == ParseColor(calls[r.call].param[1]) IN
    SetterReadSettled(r, ok, "setBackgroundColor",
        \A i \in 1 .. 3 : dev.backgroundColor[i] = At(c, i),
        backgroundColor, Uint8Array(c),
        [config EXCEPT !.backgroundColor = Some(<<At(c, 1), At(c, 2), At(c, 3)>>)])

SetBackgroundColorSettled(r, ok) ==
    LET c == ParseColor(calls[r.call].param[1]) IN
    SetterSendSettled(r, ok, "setBackgroundColor",
        [dev EXCEPT !.backgroundColor = <<At(r.data, 1), At(r.data, 2), At(r.data, 3)>>],
        [config EXCEPT !.backgroundColor = Some(<<At(c, 1), At(c, 2), At(c, 3)>>)])

\* setWritingArea(p), lines 484-504; p = <<x1, y1, x2, y2>>
SetWritingAreaCall(c, p) ==
    SetterCall(c, "setWritingArea", p, TRUE, "send", writingArea,
               Uint16LE(p[1]) \o Uint16LE(p[2]) \o Uint16LE(p[3]) \o Uint16LE(p[4]))

SetWritingAreaSettled(r, ok) ==
    SetterSendSettled(r, ok, "setWritingArea",
        [dev EXCEPT !.writingArea = <<GetUint16LE(r.data, 1), GetUint16LE(r.data, 3),
                                      GetUint16LE(r.data, 5), GetUint16LE(r.data, 7)>>],
        [config EXCEPT !.writingArea = Some(calls[r.call].param)])

\* setWritingMode(mode), lines 510-522
SetWritingModeCall(c, mode) ==
    SetterCall(c, "setWritingMode", <<mode>>, InZeroOne(mode), "send",
               writingMode, Uint8Array(<<mode>>))

SetWritingModeSettled(r, ok) ==
    SetterSendSettled(r, ok, "setWritingMode",
        [dev EXCEPT !.writingMode = r.data[1]],
        [config EXCEPT !.writingMode = Some(calls[r.call].param[1])])

(***************************************************************************)
(* connect(), lines 197-285.                                               *)
(***************************************************************************)
\* the device side: a feature report starts with its report id, the data
\* that was written follow
FeatureReport(reportId, data) == <<reportId>> \o data

\* lines 253 and 257: the colour of a colour report
ColorFields(dv) == <<GetUint8(dv, 1), GetUint8(dv, 2), GetUint8(dv, 3)>>

\* the report ids connect reads, in order (lines 233-275)
ConnectReads ==
    <<capability, information, eSerial, backgroundColor, penColorAndWidth,
      brightness, inkMode, writingMode, writingArea>>

\* #config after the k-th read of connect has been answered
ConfigAfterRead(cfg, k) ==
    IF k = 1 THEN CapabilityFields(cfg, CapabilityReport(DeviceCaps))
    ELSE IF k = 2 THEN
        [cfg EXCEPT !.deviceName = Some(DeviceCaps.deviceName),
                    !.firmware = Some(DeviceCaps.firmware)]
    ELSE IF k = 3 THEN [cfg EXCEPT !.eSerial = Some(DeviceCaps.eSerial)]
    ELSE IF k = 4 THEN
        [cfg EXCEPT !.backgroundColor =
            Some(ColorFields(FeatureReport(backgroundColor, dev.backgroundColor)))]
    ELSE IF k = 5 THEN
        LET dv == FeatureReport(penColorAndWidth, dev.penColor \o <<dev.penWidth>>)
        IN  [cfg EXCEPT !.penColor = Some(ColorFields(dv)),
                        !.penWidth = Some(GetUint8(dv, 4))]
    ELSE IF k = 6 THEN [cfg EXCEPT !.brightness = Some(dev.brightness)]
    ELSE IF k = 7 THEN [cfg EXCEPT !.inkMode = Some(dev.inkMode = 1)]
    ELSE IF k = 8 THEN [cfg EXCEPT !.writingMode = Some(dev.writingMode)]
    ELSE [cfg EXCEPT !.writingArea = Some(dev.writingArea)]

\* lines 230-233 with #device = d and the session open: register one more
\* input report listener and send the first read; with #device null (another
\* connect call has reset it, line 204) line 230 throws
ConnectAfterOpen(c, rec, d) ==
    IF d = "null"
    THEN /\ Return(c, rec, "TypeError")
         /\ UNCHANGED <<nListeners, pending>>
    ELSE /\ nListeners' = nListeners + 1
         /\ pending' = pending \cup
                { Request(c, 0, "recv", ConnectReads[1], 1, <<>>, TRUE) }
         /\ calls' = [calls EXCEPT ![c] = [rec EXCEPT !.pc = "read", !.arg = 1]]
         /\ ret' = NoRet

\* lines 225-227 with #device = d: open the device unless it is open; open()
\* rejects while another open() of the device is in progress
ConnectOpen(c, rec, d) ==
    IF opened
    THEN /\ ConnectAfterOpen(c, rec, d)
         /\ opening' = opening
    ELSE IF opening
    THEN /\ Return(c, rec, "InvalidStateError")
         /\ UNCHANGED <<opening, nListeners, pending>>
    ELSE /\ opening' = TRUE
         /\ calls' = [calls EXCEPT ![c] = [rec EXCEPT !.pc = "open"]]
         /\ ret' = NoRet
         /\ UNCHANGED <<nListeners, pending>>

\* a caller invokes connect: lines 200-207
ConnectCall(c) ==
    /\ FreeSlot(c)
    /\ Stimulus
    /\ LET rec == NewCall("connect") IN
       IF isConnected
       THEN /\ Return(c, rec, "true")
            /\ device' = device
       ELSE /\ device' = "null"
            /\ calls' = [calls EXCEPT ![c] = [rec EXCEPT !.pc = "getDevices"]]
            /\ ret' = NoRet
    /\ UNCHANGED <<opened, opening, nListeners, dev, config, deviceIsSending,
                   signaturePath, svgElement, svgPolyLine, pending, delivered,
                   nUploads>>

\* getDevices() answers, with the device among the granted ones (found) or
\* not: lines 208-227
ConnectGotDevices(c, found) ==
    /\ calls[c].op = "connect"
    /\ calls[c].pc = "getDevices"
    /\ LET d == IF found THEN "dev" ELSE device IN
       /\ device' = d
       /\ IF d = "null"
          THEN /\ calls' = [calls EXCEPT ![c].pc = "requestDevice"]
               /\ ret' = NoRet
               /\ UNCHANGED <<opening, nListeners, pending>>
          ELSE ConnectOpen(c, calls[c], d)
    /\ UNCHANGED <<opened, dev, config, deviceIsSending, signaturePath,
                   svgElement, svgPolyLine, delivered, nUploads, stimuli>>

\* requestDevice() answers, the user having picked the device or not:
\* lines 217-227
ConnectRequested(c, picked) ==
    /\ calls[c].op = "connect"
    /\ calls[c].pc = "requestDevice"
    /\ IF picked
       THEN /\ device' = "dev"
            /\ ConnectOpen(c, calls[c], "dev")
       ELSE /\ Return(c, calls[c], "false")
            /\ UNCHANGED <<device, opening, nListeners, pending>>
    /\ UNCHANGED <<opened, dev, config, deviceIsSending, signaturePath,
                   svgElement, svgPolyLine, delivered, nUploads, stimuli>>

\* open() is settled: lines 230-233 run, or line 226 throws
ConnectOpenSettled(c, ok) ==
    /\ calls[c].op = "connect"
    /\ calls[c].pc = "open"
    /\ IF ok THEN stimuli' = stimuli ELSE Stimulus
    /\ opening' = FALSE
    /\ opened' = ok
    /\ IF ok
       THEN ConnectAfterOpen(c, calls[c], device)
       ELSE /\ Return(c, calls[c], "OpenError")
            /\ UNCHANGED <<nListeners, pending>>
    /\ UNCHANGED <<device, dev, config, deviceIsSending, signaturePath,
                   svgElement, svgPolyLine, delivered, nUploads>>

\* the k-th read of connect is settled: its fields are stored and the next
\* read is sent (#readData returns undefined when the session is not open,
\* and reading from it throws), or the awaited read throws
ConnectReadSettled(r, ok) ==
    /\ Settle(r, ok)
    /\ Awaiting(r, "connect", "read")
    /\ LET c == r.call
           k == calls[c].arg
       IN  IF ~ok
           THEN /\ pending' = pending \ {r}
                /\ Return(c, calls[c], "TransportError")
                /\ config' = config
           ELSE /\ config' = ConfigAfterRead(config, k)
                /\ IF k = Len(ConnectReads)
                   THEN /\ pending' = pending \ {r}
                        /\ Return(c, calls[c], "true")
                   ELSE IF isConnected
                   THEN /\ pending' = (pending \ {r}) \cup
                               { Request(c, 0, "recv", ConnectReads[k + 1], k + 1, <<>>, TRUE) }
                        /\ calls' = [calls EXCEPT ![c].arg = k + 1]
                        /\ ret' = NoRet
                   ELSE /\ pending' = pending \ {r}
                        /\ Return(c, calls[c], "TypeError")
    /\ UNCHANGED <<device, opened, opening, nListeners, dev, deviceIsSending,
                   signaturePath, svgElement, svgPolyLine, delivered, nUploads>>

(***************************************************************************)
(* The environment: the device session closes; the device sends an input   *)
(* report.                                                                 *)
(***************************************************************************)
DeviceClose ==
    /\ opened
    /\ Stimulus
    /\ opened' = FALSE
    /\ ret' = NoRet
    /\ UNCHANGED <<device, opening, nListeners, dev, config, deviceIsSending,
                   signaturePath, svgElement, svgPolyLine, pending, calls,
                   delivered, nUploads>>

\* an open device delivers input report e to every registered listener
InputReport(e) ==
    /\ opened
    /\ Stimulus
    /\ LET st == DispatchInputReport(config, DrawSt, e, nListeners)
       IN  SetDraw(st) /\ raised' = st.inv
    /\ report' = Some(e)
    /\ delivered' = IF Qualifies(e) THEN Append(delivered, e) ELSE delivered
    /\ ret' = NoRet
    /\ UNCHANGED <<device, opened, opening, nListeners, dev, config,
                   deviceIsSending, pending, calls, nUploads>>

\* on(eventName, callbackFn, context), lines 143-145
on(eventName, callbackFn) ==
    /\ Len(events) < MaxListeners
    /\ Stimulus
    /\ events' = Append(events, [eventName |-> eventName, callbackFn |-> callbackFn])
    /\ raised' = <<>>
    /\ report' = Null
    /\ ret' = NoRet
    /\ UNCHANGED <<device, opened, opening, nListeners, dev, config,
                   deviceIsSending, signaturePath, svgElement, svgPolyLine,
                   pending, calls, delivered, nUploads, fn>>

\* un(eventName, callbackFn, context), lines 155-161: the subscriptions that
\* match every argument that is not null are removed, the others keep
\* their order
un(eventName, callbackFn) ==
    /\ Stimulus
    /\ events' = SelectSeq(events, LAMBDA e :
           ~ (/\ eventName = Null \/ eventName = Some(e.eventName)
              /\ callbackFn = Null \/ callbackFn = Some(e.callbackFn)))
    /\ raised' = <<>>
    /\ report' = Null
    /\ ret' = NoRet
    /\ UNCHANGED <<device, opened, opening, nListeners, dev, config,
                   deviceIsSending, signaturePath, svgElement, svgPolyLine,
                   pending, calls, delivered, nUploads, fn>>

\* navigator.hid reports that a device with the vendor and product id of
\* the tablet was plugged in or removed: lines 103-113
HidEvent(eventName) ==
    /\ Stimulus
    /\ raised' = <<raiseEvent(events, eventName, <<"dev">>)>>
    /\ report' = Null
    /\ ret' = NoRet
    /\ UNCHANGED <<device, opened, opening, nListeners, dev, config,
                   deviceIsSending, signaturePath, svgElement, svgPolyLine,
                   pending, calls, delivered, nUploads, events, fn>>

HidConnect == HidEvent("hidConnect")
HidDisconnect == HidEvent("hidDisconnect")

\* a step that raises no event and changes no subscription
Quiet == raised' = <<>> /\ report' = Null /\ UNCHANGED <<events, fn>>

Next ==
    \/ \E c \in Calls : ConnectCall(c) /\ Quiet
    \/ \E c \in Calls, found \in BOOLEAN : ConnectGotDevices(c, found) /\ Quiet
    \/ \E c \in Calls, picked \in BOOLEAN : ConnectRequested(c, picked) /\ Quiet
    \/ \E c \in Calls, ok \in BOOLEAN : ConnectOpenSettled(c, ok) /\ Quiet
    \/ \E r \in pending, ok \in BOOLEAN : ConnectReadSettled(r, ok) /\ Quiet
    \/ \E c \in Calls, img \in Images : SetImageCall(c, img) /\ Quiet
    \/ \E c \in Calls : SetImageTimer(c) /\ Quiet
    \/ \E r \in pending, ok \in BOOLEAN : SetImageStartSettled(r, ok) /\ Quiet
    \/ \E r \in pending, ok \in BOOLEAN : SetImageDataSettled(r, ok) /\ Quiet
    \/ \E r \in pending, ok \in BOOLEAN : SetImageEndSettled(r, ok) /\ Quiet
    \/ \E c \in Calls : ClearScreenCall(c) /\ Quiet
    \/ \E r \in pending, ok \in BOOLEAN : ClearScreenSettled(r, ok) /\ Quiet
    \/ \E c \in Calls, enabled \in {0, 1} : SetInkingCall(c, enabled) /\ Quiet
    \/ \E r \in pending, ok \in BOOLEAN : SetInkingSettled(r, ok) /\ Quiet
    \/ \E c \in Calls, width \in Widths : SetPenColorAndWidthCall(c, Red, width) /\ Quiet
    \/ \E r \in pending, ok \in BOOLEAN : SetPenColorAndWidthSettled(r, ok) /\ Quiet
    \/ \E c \in Calls, intensity \in Intensities : SetBrightnessCall(c, intensity) /\ Quiet
    \/ \E r \in pending, ok \in BOOLEAN : SetBrightnessReadSettled(r, ok) /\ Quiet
    \/ \E r \in pending, ok \in BOOLEAN : SetBrightnessSettled(r, ok) /\ Quiet
    \/ \E c \in Calls, color \in {Red, White} : SetBackgroundColorCall(c, color) /\ Quiet
    \/ \E r \in pending, ok \in BOOLEAN : SetBackgroundColorReadSettled(r, ok) /\ Quiet
    \/ \E r \in pending, ok \in BOOLEAN : SetBackgroundColorSettled(r, ok) /\ Quiet
    \/ \E c \in Calls, p \in Areas : SetWritingAreaCall(c, p) /\ Quiet
    \/ \E r \in pending, ok \in BOOLEAN : SetWritingAreaSettled(r, ok) /\ Quiet
    \/ \E c \in Calls, mode \in Modes : SetWritingModeCall(c, mode) /\ Quiet
    \/ \E r \in pending, ok \in BOOLEAN : SetWritingModeSettled(r, ok) /\ Quiet
    \/ DeviceClose /\ Quiet
    \/ \E e \in InputReports : InputReport(e) /\ UNCHANGED <<events, fn>>
    \/ \E eventName \in EventNames, callbackFn \in Callbacks : on(eventName, callbackFn)
    \/ \E eventName \in {Null} \cup { Some(n) : n \in EventNames },
          callbackFn \in {Null} \cup { Some(f) : f \in Callbacks } :
             un(eventName, callbackFn)
    \/ HidConnect
    \/ HidDisconnect

Spec == Init /\ [][Next]_vars

\* the scheduling the code relies on: a timer of #wait that is set fires, and
\* the HIDDevice settles the report a setImage call is waiting for
Fairness ==
    \A c \in Calls :
        /\ WF_vars(SetImageTimer(c) /\ Quiet)
        /\ WF_vars(\E r \in pending, ok \in BOOLEAN :
               /\ r.call = c
               /\ SetImageStartSettled(r, ok) \/ SetImageEndSettled(r, ok)
               /\ Quiet)

FairSpec == Spec /\ Fairness

(***************************************************************************)
(* Properties.                                                             *)
(***************************************************************************)
(***************************************************************************)
(* The helpers of the driver on their own: the initial state draws the     *)
(* arguments of one helper from a bounded set and one action applies it.   *)
(***************************************************************************)
\* largest array given to #splitToBulks, and largest bulk size
MaxLen == 4
MaxBulk == 3

\* the bytes the arrays are made of
SomeBytes == {0, 7, 255}

ByteArrays == UNION { [1 .. n -> SomeBytes] : n \in 0 .. MaxLen }

SplitInputs ==
    { [f |-> "splitToBulks", in |-> <<arr, bulkSize>>, out |-> <<>>] :
        arr \in ByteArrays, bulkSize \in 1 .. MaxBulk }

\* lines 623 and 627-629 of setImage: the array is split and every bulk is
\* framed as the data of a writeImageData report
ImageDataFrames(arr, bulkSize) ==
    LET bulks == splitToBulks(arr, bulkSize)
    IN  [i \in 1 .. Len(bulks) |-> ImageDataPayload(bulks[i])]

ApplySplitToBulks ==
    /\ fn.f = "splitToBulks"
    /\ fn.out = <<>>
    /\ fn' = [fn EXCEPT !.out = <<ImageDataFrames(fn.in[1], fn.in[2])>>]
    /\ UNCHANGED driverVars

\* capability answers of a device: tablet range, pressure range, display size
SomeCaps ==
    { [DeviceCaps EXCEPT !.tabletMaxX = c[1], !.tabletMaxY = c[2],
                         !.tabletMaxPressure = 1023, !.width = c[3], !.height = c[4]] :
        c \in { <<20000, 12000, 800, 480>>, <<9600, 6000, 800, 480>>,
                <<1000, 300, 300, 1000>>, <<4, 2, 1, 1>> } }

\* tablet coordinates of a pen report
SomeCoords == {0, 5, 2500, 5000, 6000, 65535}

\* the device side: event.data of a pen report (the pen in contact, pressure
\* 512, time 7, sequence number 1)
PenPayload(reportId, x, y) ==
    Uint16BE(32768 + 4096 + 512) \o Uint16BE(x) \o Uint16BE(y)
        \o (IF reportId = penDataTiming THEN Uint16BE(7) \o Uint16BE(1) ELSE <<>>)

DecodeInputs ==
    { [f |-> "onHidInputReport",
       in |-> <<CapabilityReport(caps), reportId, PenPayload(reportId, x, y)>>,
       out |-> <<>>] :
        caps \in SomeCaps, reportId \in {penData, penDataTiming},
        x \in SomeCoords, y \in SomeCoords }

\* the capability read of connect (lines 233-241), then the packet
\* #onHidInputReport builds from one pen report (lines 663-680)
ApplyDecode ==
    /\ fn.f = "onHidInputReport"
    /\ fn.out = <<>>
    /\ fn' = [fn EXCEPT !.out =
           <<DecodePacket(CapabilityFields(NullConfig, fn.in[1]),
                          ReportFields(fn.in[2], fn.in[3]))>>]
    /\ UNCHANGED driverVars

\* hex digits of the colour strings, and the strings "RRGGBB" and "#RRGGBB"
SomeDigits == {0, 9, 15}
ColorStrings ==
    LET plain == [1 .. 6 -> SomeDigits]
    IN  plain \cup { <<Hash>> \o s : s \in plain }

ColorInputs ==
    { [f |-> "setPenColorAndWidth", in |-> <<color, width>>, out |-> <<>>] :
        color \in ColorStrings, width \in {0, 3} }
    \cup { [f |-> "setBackgroundColor", in |-> <<color>>, out |-> <<>>] :
              color \in ColorStrings }

\* lines 418-425 of setPenColorAndWidth, then the read of connect (lines
\* 256-258) on the report of a device that holds the written bytes
ApplyPenColor ==
    /\ fn.f = "setPenColorAndWidth"
    /\ fn.out = <<>>
    /\ LET c == PenColorAndWidthArray(fn.in)
           written == Uint8Array(c)
       IN  fn' = [fn EXCEPT !.out =
               <<[written |-> written,
                  cached |-> <<At(c, 1), At(c, 2), At(c, 3)>>,
                  decoded |-> ColorFields(FeatureReport(penColorAndWidth, written))]>>]
    /\ UNCHANGED driverVars

\* lines 466-477 of setBackgroundColor, then the read of connect (lines
\* 252-253)
ApplyBackgroundColor ==
    /\ fn.f = "setBackgroundColor"
    /\ fn.out = <<>>
    /\ LET c == ParseColor(fn.in[1])
           written == Uint8Array(c)
       IN  fn' = [fn EXCEPT !.out =
               <<[written |-> written,
                  cached |-> <<At(c, 1), At(c, 2), At(c, 3)>>,
                  decoded |-> ColorFields(FeatureReport(backgroundColor, written))]>>]
    /\ UNCHANGED driverVars

\* arguments of #isInWritingArea: #config.writingArea (null before the first
\* read or write of the area) and the cx, cy of a sample, which are NaN or
\* Infinity for a sample decoded while the scale factors are null
SomeAreas == {Null, Some(<<100, 100, 200, 200>>)}
SomePixels == {NaN, Infinity, 50, 99, 100, 150, 200, 201}
AreaInputs ==
    { [f |-> "isInWritingArea", in |-> <<area, x, y>>, out |-> <<>>] :
        area \in SomeAreas, x \in SomePixels, y \in SomePixels }

\* #isInWritingArea(x, y), lines 752-768, under the given #config.writingArea
ApplyIsInWritingArea ==
    /\ fn.f = "isInWritingArea"
    /\ fn.out = <<>>
    /\ fn' = [fn EXCEPT !.out =
           <<isInWritingArea([writingArea |-> fn.in[1]], fn.in[2], fn.in[3])>>]
    /\ UNCHANGED driverVars

\* subscriptions whose callbacks use the driver: "f" does nothing, "once"
\* unsubscribes itself with un(eventName, once), "adder" subscribes "f" with
\* on(eventName, f).  id tells the subscriptions of one list apart.
DispatchCallbacks == {"f", "once", "adder"}
DispatchNames == {"penData", "hidConnect"}
Subscriptions ==
    UNION { [1 .. n -> DispatchNames \X DispatchCallbacks] : n \in 0 .. MaxListeners }
WithIds(subs) ==
    [i \in 1 .. Len(subs) |->
        [eventName |-> subs[i][1], callbackFn |-> subs[i][2], id |-> i]]
DispatchInputs ==
    { [f |-> "raiseEvent", in |-> <<WithIds(subs), "penData">>, out |-> <<>>] :
        subs \in Subscriptions }

\* the filter of un(eventName, callbackFn), lines 155-161
unFilter(evs, eventName, callbackFn) ==
    SelectSeq(evs, LAMBDA e :
        ~ (e.eventName = eventName /\ e.callbackFn = callbackFn))

\* #events after the callback of subscription e has run
AfterCallback(evs, e, newId) ==
    IF e.callbackFn = "once" THEN unFilter(evs, e.eventName, "once")
    ELSE IF e.callbackFn = "adder"
    THEN Append(evs, [eventName |-> e.eventName, callbackFn |-> "f", id |-> newId])
    ELSE evs

\* the loop of #raiseEvent, lines 650-654, from index i on, with callbacks
\* that change #events: this.#events and its length are read again in
\* every pass; invoked lists the ids of the subscriptions called, in order
RECURSIVE raiseEventLoop(_, _, _, _)
raiseEventLoop(evs, eventName, i, invoked) ==
    IF i > Len(evs) THEN [events |-> evs, invoked |-> invoked]
    ELSE IF evs[i].eventName = eventName
    THEN raiseEventLoop(AfterCallback(evs, evs[i], MaxListeners + 1 + Len(invoked)),
                        eventName, i + 1, Append(invoked, evs[i].id))
    ELSE raiseEventLoop(evs, eventName, i + 1, invoked)

ApplyRaiseEvent ==
    /\ fn.f = "raiseEvent"
    /\ fn.out = <<>>
    /\ fn' = [fn EXCEPT !.out = <<raiseEventLoop(fn.in[1], fn.in[2], 1, <<>>)>>]
    /\ UNCHANGED driverVars

PureInputs ==
    SplitInputs \cup DecodeInputs \cup ColorInputs \cup AreaInputs \cup DispatchInputs

PureInit ==
    /\ device = "null"
    /\ opened = FALSE
    /\ opening = FALSE
    /\ nListeners = 0
    /\ dev = DeviceDefaults
    /\ config = NullConfig
    /\ deviceIsSending = FALSE
    /\ signaturePath = <<>>
    /\ svgElement = <<>>
    /\ svgPolyLine = NullPoly
    /\ pending = {}
    /\ calls = [c \in Calls |-> Idle]
    /\ ret = NoRet
    /\ delivered = <<>>
    /\ nUploads = 0
    /\ stimuli = 0
    /\ events = <<>>
    /\ raised = <<>>
    /\ report = Null
    /\ fn \in PureInputs

PureNext ==
    \/ ApplySplitToBulks
    \/ ApplyDecode
    \/ ApplyPenColor
    \/ ApplyBackgroundColor
    \/ ApplyIsInWritingArea
    \/ ApplyRaiseEvent

PureSpec == PureInit /\ [][PureNext]_vars

IsImageWrite(r) ==
    r.reportId \in {writeImageStart, writeImageData, writeImageEnd}

IsPrefix(s, t) == Len(s) <= Len(t) /\ SubSeq(t, 1, Len(s)) = s

SetImageOk(r) == r.op = "setImage" /\ r.result = "ok"
IsBusy(r) == r.op = "setImage" /\ r.result = "Busy"
Failed(r) == r.op # "none" /\ r.result \notin {"ok", "true", "false"}

\* C1: the image writes of two setImage calls whose executions overlap never
\* interleave: while a write of one of them is outstanding at the transport,
\* no write of the other is issued or outstanding.
C1_UploadsNeverInterleave ==
    \A r1, r2 \in pending :
        (IsImageWrite(r1) /\ IsImageWrite(r2) /\ r1.uid \in r2.over) => r1.uid = r2.uid

C2_State ==
    /\ IsBusy(ret) =>
          /\ ret.nHeld = MaxTry + 1
          /\ ret.tryCnt = MaxTry
          /\ ret.sent = <<>>
    /\ \A c \in Calls :
          calls[c].pc = "wait" =>
              /\ calls[c].tryCnt \in 1 .. MaxTry
              /\ calls[c].nHeld = calls[c].tryCnt
              /\ calls[c].sent = <<>>

C2_Step ==
    /\ IsBusy(ret') =>
          /\ deviceIsSending
          /\ UNCHANGED <<deviceIsSending, signaturePath, svgElement, svgPolyLine,
                         pending, nUploads>>
    /\ \A c \in Calls :
          (calls[c].pc = "wait" /\ <<calls'[c].pc, calls'[c].tryCnt>> # <<"wait", calls[c].tryCnt>>) =>
              IF deviceIsSending
              THEN \/ /\ calls'[c].pc = "wait"
                      /\ calls'[c].tryCnt = calls[c].tryCnt + 1
                   \/ /\ IsBusy(ret')
                      /\ calls[c].tryCnt = MaxTry
              ELSE /\ nUploads' = nUploads + 1
                   /\ \/ calls'[c].pc = "start" /\ deviceIsSending'
                      \/ SetImageOk(ret')
    /\ \A c \in Calls :
          calls[c] = Idle /\ calls'[c].op = "setImage" =>
              IF deviceIsSending
              THEN calls'[c].pc = "wait" /\ calls'[c].tryCnt = 1
              ELSE calls'[c].pc = "start" /\ deviceIsSending'

\* C2: a setImage call that finds the guard held checks it again after each
\* wait, at most MaxTry times; it fails with Busy only after the guard was
\* held at the first check and at all MaxTry re-checks, and then issues no
\* report and changes neither guard, log nor scene; a check that finds the
\* guard free takes it in the same step.
C2_BoundedGuardWait == []C2_State /\ [][C2_Step]_vars

C2_Witness == IsBusy(ret) /\ ret.nHeld = MaxTry + 1

ExpectedReportIds(img) ==
    <<writeImageStart>>
        \o [i \in 1 .. CeilDiv(Len(img), ChunkSize) |-> writeImageData]
        \o <<writeImageEnd>>

\* C3: every successful setImage has issued exactly writeImageStart with
\* format 0x04, then one writeImageData per chunk in ascending chunk order,
\* then writeImageEnd.
C3_UploadSequence ==
    SetImageOk(ret) =>
        /\ [i \in 1 .. Len(ret.sent) |-> ret.sent[i].reportId] = ExpectedReportIds(ret.img)
        /\ ret.sent[1].data = <<imageFormat24BGR>>
        /\ \A k \in 1 .. CeilDiv(Len(ret.img), ChunkSize) :
              \A z \in 1 .. ChunkSize :
                  LET x == (k - 1) * ChunkSize + z
                  IN  x <= Len(ret.img) => ret.sent[k + 1].data[2 + z] = ret.img[x] % 256

\* C4: within one setImage call the writes are sequential and awaited: no
\* two writes of the same upload are outstanding together, and when the call
\* reports success none of its writes is still outstanding.
C4_ChunkSendsAwaited ==
    /\ \A r1, r2 \in pending :
          IsImageWrite(r1) /\ IsImageWrite(r2) /\ r1.uid = r2.uid => r1 = r2
    /\ SetImageOk(ret) =>
          \A r \in pending : IsImageWrite(r) => r.uid # ret.uid

\* C5: at most one feature report request of the driver is outstanding at
\* the transport at any time.
C5_OneRequestOutstanding == Cardinality(pending) <= 1

C6_EveryCallReturns ==
    \A c \in Calls : (calls[c].op = "setImage") ~> (calls[c] = Idle)

C6_Step ==
    \A c \in Calls :
        (calls[c].op = "setImage" /\ calls[c].pc = "start" /\ calls'[c].pc # "start") =>
            \/ calls'[c].pc = "end" /\ calls'[c].sent[Len(calls'[c].sent)].reportId = writeImageEnd
            \/ Failed(ret')

\* C6: with timers that fire and a transport that settles every request,
\* every setImage call eventually returns; a call that has issued
\* writeImageStart goes on to issue writeImageEnd, or fails.
C6_SetImageTerminates == C6_EveryCallReturns /\ [][C6_Step]_vars

C11_Step ==
    (ret'.op = "setImage" /\ (Failed(ret') \/ ret'.dataRejected)) =>
        /\ IsPrefix(signaturePath, signaturePath')
        /\ svgElement' = svgElement
        /\ svgPolyLine' = svgPolyLine

\* C11: a setImage call that fails (not connected, wrong buffer size, Busy,
\* or a transport error on its start, a data or its end write) removes no
\* sample from the log, changes no segment of the scene and does not close
\* the open segment.
C11_FailedSetImageKeepsLog == [][C11_Step]_vars

Setters == {"setPenColorAndWidth", "setBrightness", "setBackgroundColor",
            "setWritingArea", "setWritingMode", "setInking"}

\* the step is a run of a setter call
SetterStep ==
    \/ ret'.op \in Setters
    \/ \E c \in Calls :
          /\ calls[c].op \in Setters \/ calls'[c].op \in Setters
          /\ calls'[c] # calls[c]

C12_Step ==
    (SetterStep /\ ~(ret'.op \in Setters /\ ret'.result = "ok")) => config' = config

\* C12: a setter that fails, by parameter validation, by a missing
\* connection or by a transport error on its read or write, leaves every
\* field of the cached profile as it was: no run of a setter call other than
\* its successful return changes #config.
C12_FailedSetterKeepsProfile == [][C12_Step]_vars

C12_Witness ==
    /\ ret.op \in Setters
    /\ ret.result = "TransportError"
    /\ ret.sent # <<>>
    /\ config.writingArea # Null

\* the whole log was captured under the same drawing settings
SteadyCapture ==
    \A i \in 1 .. Len(signaturePath) : signaturePath[i].cap = signaturePath[1].cap

\* the scene the drawing pass builds from offset 0 on an empty scene, under
\* the settings cap
Replay(cap) ==
    DrawFrom([config EXCEPT !.inkMode = cap.inkMode,
                            !.writingArea = cap.writingArea,
                            !.writingMode = cap.writingMode,
                            !.penColor = cap.penColor,
                            !.penWidth = cap.penWidth],
             [path |-> signaturePath, svg |-> <<>>, poly |-> NullPoly, threw |-> FALSE,
              inv |-> <<>>],
             1).svg

\* C13: recomputing the segments from scratch over the whole sample log,
\* with the settings that were active during capture, gives exactly the
\* scene that was built sample by sample.
C13_ReplayEqualsIncremental ==
    (signaturePath # <<>> /\ SteadyCapture) =>
        Replay(signaturePath[1].cap) = svgElement

AllKnown(profile) == \A f \in DeviceFields : profile[f] # Null
AllUnknown(profile) == \A f \in DeviceFields : profile[f] = Null

\* C14: negotiation is all-or-nothing: at no state, also while connect is in
\* progress and after a failed connect, does getTabletInfo return a profile
\* with some device fields set and others unknown.
C14_NegotiationAllOrNothing ==
    LET info == getTabletInfo(config, isConnected)
    IN  AllKnown(info.profile) \/ AllUnknown(info.profile)

\* the read of connect (its place in ConnectReads) and the setter that
\* supply each field
FieldRead ==
    [tabletMaxX |-> 1, tabletMaxY |-> 1, tabletMaxPressure |-> 1, width |-> 1,
     height |-> 1, maxReportRate |-> 1, scaleFactorX |-> 1, scaleFactorY |-> 1,
     deviceName |-> 2, firmware |-> 2, eSerial |-> 3, backgroundColor |-> 4,
     penColor |-> 5, penWidth |-> 5, brightness |-> 6, inkMode |-> 7,
     writingMode |-> 8, writingArea |-> 9]

FieldSetter ==
    [tabletMaxX |-> "none", tabletMaxY |-> "none", tabletMaxPressure |-> "none",
     width |-> "none", height |-> "none", maxReportRate |-> "none",
     scaleFactorX |-> "none", scaleFactorY |-> "none", deviceName |-> "none",
     firmware |-> "none", eSerial |-> "none",
     backgroundColor |-> "setBackgroundColor", penColor |-> "setPenColorAndWidth",
     penWidth |-> "setPenColorAndWidth", brightness |-> "setBrightness",
     inkMode |-> "setInking", writingMode |-> "setWritingMode",
     writingArea |-> "setWritingArea"]

C15_Step ==
    \A f \in DeviceFields :
        config'[f] # config[f] =>
            \/ \E c \in Calls :
                  /\ calls[c].op = "connect"
                  /\ calls[c].pc = "read"
                  /\ calls[c].arg = FieldRead[f]
                  /\ calls'[c] # calls[c]
            \/ ret'.op = FieldSetter[f] /\ ret'.result = "ok"

\* C15: every device field of the profile is unknown at construction and
\* changes only in the run that completes the read of connect supplying it,
\* or in the successful return of the setter of that field.
C15_FieldsUnknownUntilRead ==
    [](stimuli = 0 => AllUnknown(config)) /\ [][C15_Step]_vars

C15_Witness ==
    /\ config.tabletMaxX # Null
    /\ config.brightness # Null
    /\ config.writingArea = Null
    /\ ret.op = "setBrightness"
    /\ ret.result = "ok"

\* C16: the profile is destroyed on disconnect: while no session is open
\* getTabletInfo reports every device field unknown.
C16_ProfileDestroyedOnDisconnect ==
    LET info == getTabletInfo(config, isConnected)
    IN  ~info.connected => AllUnknown(info.profile)

\* (x, y) lies inside the writing area, or no area is configured
Inside(area, x, y) ==
    \/ area = Null
    \/ /\ x \notin {NaN, Infinity}
       /\ y \notin {NaN, Infinity}
       /\ area[1][1] <= x /\ x <= area[1][3]
       /\ area[1][2] <= y /\ y <= area[1][4]

\* the samples the step appended to the log
NewSamples ==
    IF IsPrefix(signaturePath, signaturePath')
    THEN { signaturePath'[k] : k \in Len(signaturePath) + 1 .. Len(signaturePath') }
    ELSE {}

C17_Step ==
    /\ \A j \in 1 .. Len(svgElement') :
          \A i \in 1 .. Len(svgElement'[j].points) :
              (j > Len(svgElement) \/ i > Len(svgElement[j].points)) =>
                  \E p \in NewSamples :
                      /\ svgElement'[j].points[i] = <<p.cx, p.cy>>
                      /\ Inside(config.writingArea, p.cx, p.cy)
    /\ (\A p \in NewSamples : ~Inside(config.writingArea, p.cx, p.cy)) =>
          svgElement' = svgElement \/ svgElement' = <<>>

AllInContact ==
    /\ signaturePath # <<>>
    /\ \A i \in 1 .. Len(signaturePath) :
          LET p == signaturePath[i]
          IN  /\ p.rdy
              /\ p.sw
              /\ p.cap.inkMode = Some(TRUE)
              /\ Inside(p.cap.writingArea, p.cx, p.cy)

\* the normalized pressures n / d of two samples differ by more than 0.02
Differ(a, b) ==
    /\ a.d > 0
    /\ b.d > 0
    /\ LET diff == a.n * b.d - b.n * a.d
       IN  50 * (IF diff < 0 THEN 0 - diff ELSE diff) > a.d * b.d

Crossings ==
    Cardinality({ i \in 2 .. Len(signaturePath) :
                    Differ(signaturePath[i].cpress, signaturePath[i - 1].cpress) })

\* C18: for a log, started on an empty scene, whose samples are all in
\* contact with ink enabled and inside the writing area, the number of
\* segments is one plus the number of consecutive pairs whose normalized
\* pressures differ by more than 0.02.
C18_SegmentsPerCrossing ==
    AllInContact => Len(svgElement) = 1 + Crossings

\* the same with a known pen colour for every sample
C18_WithPenColor ==
    (AllInContact /\ \A i \in 1 .. Len(signaturePath) : signaturePath[i].cap.penColor # Null)
        => Len(svgElement) = 1 + Crossings

Validated == {"setPenColorAndWidth", "setBrightness", "setWritingMode"}

\* the range-checked argument of the call is outside its range
OutOfRange(r) ==
    \/ r.op = "setPenColorAndWidth" /\ r.param[2] \notin 0 .. 3
    \/ r.op = "setBrightness" /\ r.param[1] \notin 0 .. 3
    \/ r.op = "setWritingMode" /\ r.param[1] \notin 0 .. 1

\* the call returned in the run that made it, with no request issued and
\* the profile unchanged
FailedBeforeIO ==
    /\ calls' = calls
    /\ pending' = pending
    /\ ret'.sent = <<>>
    /\ config' = config

\* a value inside the range is accepted: on an open session the call that
\* starts hands its first request to the transport
C19_Accepted ==
    /\ (ret'.op \in Validated /\ ~OutOfRange(ret')) => ret'.result # "InvalidParameter"
    /\ (ret'.op \in Validated /\ ~OutOfRange(ret') /\ calls' = calls) =>
          ret'.result = "NotConnected" /\ ~isConnected
    /\ \A c \in Calls :
          (calls[c] = Idle /\ calls'[c].op \in Validated) =>
              /\ ~OutOfRange(calls'[c])
              /\ Cardinality(pending') = Cardinality(pending) + 1

C19_OriginalStep ==
    /\ (ret'.op \in Validated /\ OutOfRange(ret')) =>
          ret'.result = "InvalidParameter" /\ FailedBeforeIO
    /\ C19_Accepted

\* C19: setPenColorAndWidth with a width outside 0..3, setWritingMode with a
\* mode outside 0..1 and setBrightness with an intensity outside 0..3 fail
\* with InvalidParameter before any request is issued and leave the profile
\* unchanged; every value inside is accepted.
C19_InvalidParameterBeforeIO == [][C19_OriginalStep]_vars

C19_AmendedStep ==
    /\ (ret'.op \in Validated /\ OutOfRange(ret')) =>
          /\ ret'.result = IF isConnected THEN "InvalidParameter" ELSE "NotConnected"
          /\ FailedBeforeIO
    /\ C19_Accepted

\* C19 as amended: on an open session the out-of-range call fails with
\* InvalidParameter, without one it fails with NotConnected; in both cases
\* before any request is issued and with the profile unchanged; every value
\* inside the ranges is accepted on an open session.
C19_Amended == [][C19_AmendedStep]_vars

C19_Witness ==
    /\ ret.op \in Validated
    /\ OutOfRange(ret)
    /\ ret.result = "InvalidParameter"
    /\ config.penWidth # Null

\* the display size is negotiated and the buffer of the call has another
\* length than width * height * 3
WrongSize(r) ==
    /\ config.width # Null
    /\ config.height # Null
    /\ Len(r.img) # config.width[1] * config.height[1] * 3

RightSize(r) ==
    /\ config.width # Null
    /\ config.height # Null
    /\ Len(r.img) = config.width[1] * config.height[1] * 3

\* the call returned in the run that made it: it neither checked nor took
\* the guard and issued no report
FailedBeforeGuard ==
    /\ calls' = calls
    /\ ret'.nHeld = 0
    /\ ret'.uid = 0
    /\ ret'.sent = <<>>
    /\ UNCHANGED <<deviceIsSending, pending, nUploads>>

\* a buffer of the right length passes the check, a buffer of another
\* length never gets past it
C20_Passes ==
    /\ (ret'.op = "setImage" /\ RightSize(ret') /\ calls' = calls) =>
          ret'.result = "NotConnected" /\ ~isConnected
    /\ \A c \in Calls :
          (calls[c] = Idle /\ calls'[c].op = "setImage") => ~WrongSize(calls'[c])

C20_OriginalStep ==
    /\ (ret'.op = "setImage" /\ calls' = calls /\ WrongSize(ret')) =>
          ret'.result = "InvalidParameter" /\ FailedBeforeGuard
    /\ C20_Passes

C20_AmendedStep ==
    /\ (ret'.op = "setImage" /\ calls' = calls /\ WrongSize(ret')) =>
          /\ ret'.result = IF isConnected THEN "InvalidParameter" ELSE "NotConnected"
          /\ FailedBeforeGuard
    /\ C20_Passes

C7_OneSamplePerReport ==
    /\ Len(signaturePath) = Len(delivered)
    /\ \A i \in 1 .. Len(delivered) :
          /\ signaturePath[i].x = delivered[i].x
          /\ signaturePath[i].y = delivered[i].y
          /\ signaturePath[i].press = delivered[i].status % 1024

ClearingReturn(r) == r.op = "clearScreen" \/ SetImageOk(r)

C8_Step ==
    /\ \/ IsPrefix(signaturePath, signaturePath')
       \/ ClearingReturn(ret') /\ signaturePath' = <<>>
    /\ (ret'.op \in {"setInking", "connect"} \/ Failed(ret')) =>
          signaturePath' = signaturePath
    /\ (ret'.op = "none" /\ delivered' = delivered) =>
          signaturePath' = signaturePath

\* C8: between two clears every step leaves the old sample log a prefix of
\* the new one; setters, connect and failed operations do not change the log.
C8_LogAppendOnly == [][C8_Step]_vars

C9_State ==
    /\ (ret.op = "clearScreen" /\ ret.result = "ok") =>
          /\ signaturePath = <<>>
          /\ svgElement = <<>>
          /\ svgPolyLine = NullPoly
    /\ signaturePath = <<>> => svgElement = <<>> /\ svgPolyLine = NullPoly

C9_Step ==
    /\ (signaturePath # <<>> /\ signaturePath' = <<>>) =>
          svgElement' = <<>> /\ svgPolyLine' = NullPoly
    /\ (svgElement # <<>> /\ ~IsPrefix(SubSeq(svgElement, 1, Len(svgElement) - 1), svgElement')) =>
          signaturePath' = <<>> /\ svgElement' = <<>> /\ svgPolyLine' = NullPoly

\* C9: when clearScreen returns successfully the log is empty, the scene
\* holds no segment and no segment is open, also when samples arrived while
\* the report was in flight; log, scene and open segment are cleared in one
\* step, never one without the others.
C9_ClearScreenClears == []C9_State /\ [][C9_Step]_vars

C9_Witness ==
    /\ ret.op = "clearScreen"
    /\ ret.result = "ok"
    /\ ret.log0 > 0
    /\ ret.logEnd > ret.log0

C10_State ==
    SetImageOk(ret) =>
        /\ signaturePath = <<>>
        /\ svgElement = <<>>
        /\ svgPolyLine = NullPoly

\* the sample is one the driver draws: pen in contact, inking on, inside the
\* writing area, pen colour known
IsDrawn(cfg, p) ==
    /\ p.rdy
    /\ p.sw
    /\ cfg.inkMode = Some(TRUE)
    /\ isInWritingArea(cfg, p.cx, p.cy)
    /\ cfg.penColor # Null

C10_Step ==
    SetImageOk(ret) =>
        /\ (signaturePath' # <<>> /\ IsDrawn(config, signaturePath'[1])) =>
               svgElement' # <<>>
        /\ svgElement' # svgElement =>
               /\ svgPolyLine'.ref = "last"
               /\ Len(svgElement') = 1
               /\ svgElement'[1].points[1] = <<signaturePath'[1].cx, signaturePath'[1].cy>>


SessionOps ==
    {"setPenColorAndWidth", "setBrightness", "setBackgroundColor",
     "setWritingArea", "setWritingMode", "setInking", "clearScreen", "setImage"}

C21_Step ==
    ~isConnected =>
        /\ \A c \in Calls : calls[c] = Idle => calls'[c].op \notin SessionOps
        /\ (ret'.op \in SessionOps /\ calls' = calls) =>
              /\ ret'.result = "NotConnected"
              /\ ret'.sent = <<>>
              /\ UNCHANGED <<pending, config, signaturePath, svgElement,
                             svgPolyLine, deviceIsSending>>

\* C21: each of setPenColorAndWidth, setBrightness, setBackgroundColor,
\* setWritingArea, setWritingMode, setInking, clearScreen and setImage,
\* called while no session is open, fails with NotConnected, issues no
\* request and leaves the profile, the sample log, the scene and the upload
\* guard unchanged.
C21_NotConnectedBeforeIO == [][C21_Step]_vars

\* a call on a driver whose session was closed after samples were logged
C21_Witness ==
    /\ ret.op \in SessionOps
    /\ ret.result = "NotConnected"
    /\ device = "dev"
    /\ ~opened
    /\ signaturePath # <<>>

\* the RGB triple a colour string "#RRGGBB" or "RRGGBB" stands for
HexTriple(color) ==
    LET s == IF color[1] = Hash THEN Tail(color) ELSE color
    IN  <<16 * s[1] + s[2], 16 * s[3] + s[4], 16 * s[5] + s[6]>>

\* the profile holds the value the returning setter call was asked to set
CacheHoldsRequest(cfg, r) ==
    /\ r.op = "setPenColorAndWidth" =>
          cfg.penColor = Some(HexTriple(r.param[1])) /\ cfg.penWidth = Some(r.param[2])
    /\ r.op = "setBrightness" => cfg.brightness = Some(r.param[1])
    /\ r.op = "setBackgroundColor" => cfg.backgroundColor = Some(HexTriple(r.param[1]))
    /\ r.op = "setWritingArea" => cfg.writingArea = Some(r.param)
    /\ r.op = "setWritingMode" => cfg.writingMode = Some(r.param[1])

C22_Step ==
    /\ (ret'.op \in Setters /\ ret'.result = "ok") => CacheHoldsRequest(config', ret')
    /\ \A c \in Calls :
          (calls[c].op = "setInking" /\ ret'.op = "setInking" /\ ret'.result = "ok"
              /\ calls'[c] = Idle) =>
                 config'.inkMode = Some(calls[c].arg = 1)

\* C22: whenever a setter returns success, the profile field it sets equals
\* the requested value, also when setBrightness or setBackgroundColor skip
\* the write because the device reports the requested value already.
C22_SuccessMeansCached == [][C22_Step]_vars

\* ceil(n / d), by its definition: the least k with k * d >= n
Ceil(n, d) == CHOOSE k \in 0 .. n : k * d >= n /\ \A j \in 0 .. k - 1 : j * d < n

\* the sequences of ss, one after the other
RECURSIVE Flatten(_)
Flatten(ss) == IF ss = <<>> THEN <<>> ELSE Head(ss) \o Flatten(Tail(ss))

\* the chunk bytes of a writeImageData frame: what follows the length byte
\* and the zero byte
ChunkOf(frame) == SubSeq(frame, 3, Len(frame))

SplitApplied == fn.f = "splitToBulks" /\ fn.out # <<>>

\* C23: for every byte array of length L and chunk size S the split yields
\* exactly ceil(L / S) chunks, and the chunk payloads, concatenated in order
\* and cut to the first L bytes, are the original array.
C23_SplitRoundTrip ==
    SplitApplied =>
        LET arr == fn.in[1]
            frames == fn.out[1]
            bytes == Flatten([i \in 1 .. Len(frames) |-> ChunkOf(frames[i])])
        IN  /\ Len(frames) = Ceil(Len(arr), fn.in[2])
            /\ Len(bytes) >= Len(arr)
            /\ SubSeq(bytes, 1, Len(arr)) = arr

\* an array whose last chunk is padded
C23_Witness ==
    /\ SplitApplied
    /\ Len(fn.in[1]) % fn.in[2] # 0
    /\ Len(fn.out[1]) >= 2

\* k is an integer nearest to n / d
Nearest(k, n, d) == 2 * k * d - 2 * n <= d /\ 2 * n - 2 * k * d <= d

DecodeApplied == fn.f = "onHidInputReport" /\ fn.out # <<>>

\* the 16-bit big-endian value at offset i of a sequence of bytes
BE16(bytes, i) == bytes[i + 1] * 256 + bytes[i + 2]

\* C24: for a pen sample decoded after negotiation, x and y are the
\* big-endian 16-bit fields at payload offsets 2 and 4, cx is x divided by
\* tabletMaxX / width and cy is y divided by tabletMaxY / height, each
\* rounded to the nearest integer; tablet range (20000, 12000) with display
\* (800, 480) and tablet point (5000, 2500) give pixel (200, 100).
C24_DecodeScalesPerAxis ==
    DecodeApplied =>
        LET dv == fn.in[1]
            data == fn.in[3]
            p == fn.out[1]
        IN  /\ p.x = BE16(data, 2)
            /\ p.y = BE16(data, 4)
            /\ Nearest(p.cx, BE16(data, 2) * BE16(dv, 7), BE16(dv, 1))
            /\ Nearest(p.cy, BE16(data, 4) * BE16(dv, 9), BE16(dv, 3))
            /\ (/\ BE16(dv, 1) = 20000 /\ BE16(dv, 3) = 12000
                /\ BE16(dv, 7) = 800 /\ BE16(dv, 9) = 480
                /\ BE16(data, 2) = 5000 /\ BE16(data, 4) = 2500) =>
                   p.cx = 200 /\ p.cy = 100

\* the example of the claim, decoded
C24_Witness ==
    /\ DecodeApplied
    /\ BE16(fn.in[1], 1) = 20000
    /\ BE16(fn.in[1], 3) = 12000
    /\ BE16(fn.in[3], 2) = 5000
    /\ BE16(fn.in[3], 4) = 2500
    /\ fn.out[1].cx = 200
    /\ fn.out[1].cy = 100

ColorApplied == fn.f \in {"setPenColorAndWidth", "setBackgroundColor"} /\ fn.out # <<>>

\* C25: for every colour string "#RRGGBB" or "RRGGBB" the triple that
\* setPenColorAndWidth and setBackgroundColor write and cache is the triple
\* that decoding the device's colour report gives back, it is the triple the
\* string stands for, in the order R, G, B, each component in 0 .. 255.
C25_ColorRoundTrip ==
    ColorApplied =>
        LET rgb == HexTriple(fn.in[1])
            o == fn.out[1]
        IN  /\ o.cached = rgb
            /\ SubSeq(o.written, 1, 3) = rgb
            /\ o.decoded = rgb
            /\ \A i \in 1 .. 3 : o.decoded[i] \in 0 .. 255

\* a colour with three different components, given with its "#"
C25_Witness ==
    /\ ColorApplied
    /\ fn.in[1][1] = Hash
    /\ fn.out[1].decoded = <<249, 144, 15>>

\* the report ids of pen data (0x01) and of pen data with timing (0x34)
IsPenReportId(id) == id = 1 \/ id = 52

C26_Step ==
    (report' # Null /\ ~IsPenReportId(report'[1].reportId)) =>
        /\ UNCHANGED <<signaturePath, svgElement, svgPolyLine>>
        /\ raised' = <<>>

\* C26: an input report whose report id is neither 0x01 nor 0x34 is ignored:
\* it leaves the sample log, the scene and the open segment unchanged and
\* raises no penData event.
C26_OtherReportsIgnored == [][C26_Step]_vars

\* such a report arrives while a segment is open and penData has a listener
C26_Witness ==
    /\ report # Null
    /\ ~IsPenReportId(report[1].reportId)
    /\ signaturePath # <<>>
    /\ svgPolyLine.ref = "last"
    /\ \E i \in 1 .. Len(events) : events[i].eventName = "penData"

\* the positions of the subscriptions for eventName, in the order of on()
RECURSIVE SubscribedFrom(_, _, _)
SubscribedFrom(evs, eventName, i) ==
    IF i > Len(evs) THEN <<>>
    ELSE IF evs[i].eventName = eventName
    THEN <<i>> \o SubscribedFrom(evs, eventName, i + 1)
    ELSE SubscribedFrom(evs, eventName, i + 1)

\* the raise r has called exactly the listeners subscribed for its event
\* name, in the order of subscription, each with the arguments of the event
InSubscriptionOrder(evs, r) ==
    LET subs == SubscribedFrom(evs, r.eventName, 1)
    IN  /\ Len(r.calls) = Len(subs)
        /\ \A j \in 1 .. Len(subs) :
              /\ r.calls[j].sub = subs[j]
              /\ r.calls[j].callbackFn = evs[subs[j]].callbackFn
              /\ r.calls[j].args = r.args
        /\ \A j \in 1 .. Len(r.calls) : evs[r.calls[j].sub].eventName = r.eventName

C27_Step == \A k \in 1 .. Len(raised') : InSubscriptionOrder(events, raised'[k])

\* C27: when an event is raised, the listeners subscribed for that event
\* name are invoked in the order in which they were subscribed with on(),
\* each with the event's arguments, and listeners subscribed for other event
\* names are not invoked.
C27_DispatchInSubscriptionOrder == [][C27_Step]_vars

\* an event raised with two listeners of its name, g before f, and a
\* listener of another name between them
C27_Witness ==
    /\ Len(raised) = 1
    /\ Len(events) = 3
    /\ events[1].eventName = raised[1].eventName
    /\ events[2].eventName # raised[1].eventName
    /\ events[3].eventName = raised[1].eventName
    /\ events[1].callbackFn = "g"
    /\ events[3].callbackFn = "f"
    /\ Len(raised[1].calls) = 2
    /\ raised[1].calls[1].callbackFn = "g"
    /\ raised[1].calls[2].callbackFn = "f"

\* the report ids of the claim, in its order: capability, information,
\* serial, background colour, pen colour and width, brightness, ink mode,
\* writing mode, writing area
ExpectedReads == <<9, 8, 15, 46, 45, 43, 33, 14, 42>>

\* a read of connect (the reads of the setters have no position)
IsConnectRead(r) == r.kind = "recv" /\ r.idx > 0

\* a read that connect issues in this step has the report id of its
\* position, is the only outstanding read of its call, and is issued in the
\* step in which the read before it was answered (the first one: in the step
\* in which the call got its open device)
C28_OrderStep ==
    \A r \in pending' \ pending :
        IsConnectRead(r) =>
            /\ r.idx \in 1 .. Len(ExpectedReads)
            /\ r.reportId = ExpectedReads[r.idx]
            /\ \A q \in pending' : (IsConnectRead(q) /\ q.call = r.call) => q = r
            /\ IF r.idx = 1
               THEN calls[r.call].op = "connect" /\ calls[r.call].pc # "read"
               ELSE \E q \in pending \ pending' :
                       IsConnectRead(q) /\ q.call = r.call /\ q.idx = r.idx - 1

\* the step answers the last read of a connect call, which returns
LastReadAnswered ==
    \E q \in pending \ pending' :
        /\ IsConnectRead(q)
        /\ q.idx = Len(ExpectedReads)
        /\ calls[q.call].op = "connect"
        /\ calls'[q.call] = Idle

\* all nine reads have been answered before: the profile is complete and no
\* connect call is still reading
ReadsCompleted ==
    /\ AllKnown(config)
    /\ \A c \in Calls : calls[c].op # "connect"

C28_ReturnStep ==
    (ret'.op = "connect" /\ ret'.result = "true") => LastReadAnswered \/ ReadsCompleted

\* the order of the reads alone
C28_ReadOrder == [][C28_OrderStep]_vars

\* C28: connect issues its reads in the fixed order capability, information,
\* serial, background colour, pen colour and width, brightness, ink mode,
\* writing mode, writing area, each only after the previous one has
\* completed, and returns true only after the last read has completed.
C28_ReadsInOrderThenTrue == [][C28_OrderStep /\ C28_ReturnStep]_vars

\* the pen of the delivered report touches the surface (bit 0x1000 of the
\* status word)
InContact(e) == (e.status \div 4096) % 2 = 1

\* the sample is not to be drawn: no contact, ink disabled, or outside the
\* writing area
NotDrawn(e, p) ==
    \/ ~InContact(e)
    \/ config.inkMode # Some(TRUE)
    \/ ~Inside(config.writingArea, p.cx, p.cy)

C29_Step ==
    \A p \in NewSamples :
        (report' # Null /\ NotDrawn(report'[1], p)) =>
            /\ svgPolyLine' = NullPoly
            /\ svgElement' = svgElement

InProximity(e) == (e.status \div 32768) % 2 = 1

\* two normalized pressures, as fractions n / d, differ by more than 0.02
DiffersByMoreThan2Percent(a, b) ==
    LET diff == a.n * b.d - b.n * a.d
    IN  50 * (IF diff < 0 THEN 0 - diff ELSE diff) > a.d * b.d

\* the fractions a and b are the same number
SameFraction(a, b) == a.n * b.d = b.n * a.d

\* the width of a segment opened for sample p: 1 + 1.5 * pressure in writing
\* mode 1, else the fixed width of the pen width class
WidthFor(cfg, p) ==
    IF cfg.writingMode = Some(1)
    THEN [n |-> 2 * p.cpress.d + 3 * p.cpress.n, d |-> 2 * p.cpress.d]
    ELSE IF cfg.penWidth = Some(0) THEN [n |-> 1, d |-> 2]
    ELSE IF cfg.penWidth = Some(1) THEN [n |-> 2, d |-> 1]
    ELSE IF cfg.penWidth = Some(2) THEN [n |-> 3, d |-> 1]
    ELSE [n |-> 9, d |-> 2]

\* the step logs one sample, which is drawable, while a segment of the scene
\* is open and the log holds a sample before it; both pressures are
\* normalized with a known range
C30_Case ==
    /\ report' # Null
    /\ Len(signaturePath') = Len(signaturePath) + 1
    /\ signaturePath # <<>>
    /\ svgPolyLine.ref = "last"
    /\ InProximity(report'[1])
    /\ InContact(report'[1])
    /\ config.inkMode = Some(TRUE)
    /\ LET cur == signaturePath'[Len(signaturePath')]
           prev == signaturePath[Len(signaturePath)]
       IN  /\ Inside(config.writingArea, cur.cx, cur.cy)
           /\ cur.cpress.d > 0
           /\ prev.cpress.d > 0

C30_Step ==
    C30_Case =>
        LET cur == signaturePath'[Len(signaturePath')]
            prev == signaturePath[Len(signaturePath)]
            pt == <<cur.cx, cur.cy>>
            k == Len(svgElement)
        IN  /\ svgPolyLine'.ref = "last"
            /\ \A j \in 1 .. k - 1 : svgElement'[j] = svgElement[j]
            /\ svgElement'[k] = [svgElement[k] EXCEPT !.points = Append(@, pt)]
            /\ IF DiffersByMoreThan2Percent(cur.cpress, prev.cpress)
               THEN /\ Len(svgElement') = k + 1
                    /\ svgElement'[k + 1].points = <<pt>>
                    /\ SameFraction(svgElement'[k + 1].strokeWidth, WidthFor(config, cur))
               ELSE Len(svgElement') = k

\* C30: a drawable sample that arrives while a segment is open and whose
\* normalized pressure differs from the preceding sample's by more than 0.02
\* is appended to the open segment, which keeps its width; that segment is
\* closed, a new one is opened with a recomputed width, and the same point
\* is its first point.  With a difference of at most 0.02 the point is
\* appended once to the open segment and no segment is opened.
C30_PressureJumpSplits == [][C30_Step]_vars

\* two samples in writing mode 1 whose pressures differ: two segments of
\* different widths that share the second point
C30_Witness ==
    /\ report # Null
    /\ Len(signaturePath) = 2
    /\ Len(svgElement) = 2
    /\ Len(svgElement[1].points) = 2
    /\ svgElement[2].points = <<svgElement[1].points[2]>>
    /\ ~SameFraction(svgElement[1].strokeWidth, svgElement[2].strokeWidth)
    /\ svgPolyLine.ref = "last"

\* the fixed width of a pen width class, as a fraction
ClassWidth(w) ==
    IF w = 0 THEN [n |-> 1, d |-> 2]
    ELSE IF w = 1 THEN [n |-> 2, d |-> 1]
    ELSE IF w = 2 THEN [n |-> 3, d |-> 1]
    ELSE [n |-> 9, d |-> 2]

\* the segments a step appends to the scene
OpenedSegments ==
    IF Len(svgElement') > Len(svgElement)
    THEN Len(svgElement) + 1 .. Len(svgElement')
    ELSE {}

C31_Step ==
    \A j \in OpenedSegments :
        LET p == signaturePath'[Len(signaturePath')].cpress
            seg == svgElement'[j]
        IN  /\ config.penColor # Null
            /\ seg.stroke = config.penColor[1]
            /\ IF config.writingMode = Some(1)
               THEN p.d > 0 =>
                        SameFraction(seg.strokeWidth,
                                     [n |-> 2 * p.d + 3 * p.n, d |-> 2 * p.d])
               ELSE /\ config.penWidth \in {Some(0), Some(1), Some(2), Some(3)}
                    /\ SameFraction(seg.strokeWidth, ClassWidth(config.penWidth[1]))

\* C31: a segment, when it is opened, gets the stroke width 1 + 1.5 * p in
\* writing mode 1 (p the normalized pressure of the sample that opens it)
\* and otherwise the fixed width of the current pen width class (0.5, 2, 3,
\* 4.5 for the classes 0 .. 3); its colour is the current pen colour.
C31_WidthAndColourAtOpening == [][C31_Step]_vars

\* a segment opened in writing mode 1 by a sample of pressure 10 / 100:
\* width 1.15
C31_Witness ==
    /\ report # Null
    /\ config.writingMode = Some(1)
    /\ Len(svgElement) = 1
    /\ Len(signaturePath) = 1
    /\ svgElement[1].strokeWidth.d > 0
    /\ SameFraction(svgElement[1].strokeWidth, [n |-> 23, d |-> 20])
    /\ svgElement[1].stroke = config.penColor[1]

\* a <= b on pixel coordinates: false when one of them is not a number, and
\* Infinity is above every number
LessEq(a, b) ==
    /\ a # NaN
    /\ b # NaN
    /\ (a = Infinity => b = Infinity)
    /\ (a # Infinity /\ b # Infinity => a <= b)

\* the test of the writing area has been applied to area, x, y
AreaApplied == fn.f = "isInWritingArea" /\ fn.out # <<>>

\* x1 <= x <= x2 and y1 <= y <= y2, or no area set
Admitted(area, x, y) ==
    \/ area = Null
    \/ /\ LessEq(area[1][1], x) /\ LessEq(x, area[1][3])
       /\ LessEq(area[1][2], y) /\ LessEq(y, area[1][4])

\* C32: the writing-area test admits a point (x, y) exactly when
\* x1 <= x <= x2 and y1 <= y <= y2, both bounds inclusive, and admits every
\* point when no writing area is set.
C32_AdmitsExactlyInside ==
    AreaApplied => (fn.out[1] <=> Admitted(fn.in[1], fn.in[2], fn.in[3]))

\* the same for coordinates that are numbers (Infinity included)
C32_ForNumbers ==
    AreaApplied /\ fn.in[2] # NaN /\ fn.in[3] # NaN
        => (fn.out[1] <=> Admitted(fn.in[1], fn.in[2], fn.in[3]))

\* the scenario of the claim: (50, 50) is excluded and (150, 150) included
C32_Scenario ==
    AreaApplied /\ fn.in[1] = Some(<<100, 100, 200, 200>>) =>
        /\ (fn.in[2] = 50 /\ fn.in[3] = 50 => ~fn.out[1])
        /\ (fn.in[2] = 150 /\ fn.in[3] = 150 => fn.out[1])

\* the j-th segment of the scene is closed: it is not the polyline that
\* #svgPolyLine refers to
Closed(j) ==
    /\ j \in 1 .. Len(svgElement)
    /\ (j < Len(svgElement) \/ svgPolyLine.ref # "last")

\* the step clears the scene at the end of clearScreen or of an upload that
\* reports success
ClearingStep ==
    /\ svgElement' = <<>>
    /\ \/ ret'.op = "clearScreen"
       \/ ret'.op = "setImage" /\ ret'.result = "ok"

C33_Step ==
    \/ ClearingStep
    \/ \A j \in 1 .. Len(svgElement) :
           Closed(j) => /\ j <= Len(svgElement')
                        /\ svgElement'[j] = svgElement[j]

\* C33: once a segment is closed, its points, width and colour never change:
\* later samples and later setPenColorAndWidth, setWritingMode,
\* setWritingArea or setInking calls leave every closed segment as it was,
\* until the scene is cleared by clearScreen or a successful upload.
C33_ClosedSegmentsImmutable == [][C33_Step]_vars

\* a segment closed by a pressure jump keeps width 2 after
\* setPenColorAndWidth has stored another pen width class
C33_Witness ==
    /\ ret.op = "setPenColorAndWidth"
    /\ ret.result = "ok"
    /\ Len(svgElement) = 2
    /\ Closed(1)
    /\ config.penWidth \in {Some(0), Some(3)}
    /\ SameFraction(svgElement[1].strokeWidth, ClassWidth(1))

\* the number of bytes of arr that the i-th chunk of size s carries
Occupied(arr, s, i) == IF i * s <= Len(arr) THEN s ELSE Len(arr) - (i - 1) * s

\* C34: in every writeImageData frame [length byte, 0, ...chunk bytes] the
\* length byte is the occupied length of the chunk: the chunk size for a
\* full chunk and L mod chunkSize for a final partial chunk of an image of
\* length L.
C34_LengthByteIsOccupied ==
    SplitApplied =>
        \A i \in 1 .. Len(fn.out[1]) :
            fn.out[1][i][1] = Occupied(fn.in[1], fn.in[2], i)

\* the length byte of the frames of the full chunks is the chunk size
C34_FullChunks ==
    SplitApplied =>
        \A i \in 1 .. Len(fn.out[1]) :
            i * fn.in[2] <= Len(fn.in[1]) => fn.out[1][i][1] = fn.in[2]

\* the length byte of every frame is the chunk size
C34_AlwaysChunkSize ==
    SplitApplied => \A i \in 1 .. Len(fn.out[1]) : fn.out[1][i][1] = fn.in[2]

\* the step ends a call of op with success
Succeeds(op) == ret' # NoRet /\ ret'.op = op /\ ret'.result = "ok"

\* every feature report write the operation consists of was handed to the
\* device: for setImage the start, one per chunk and the end; for
\* setBrightness and setBackgroundColor the one write, unless the device
\* holds the value already
WritesMade ==
    /\ Succeeds("setImage") =>
           Len(ret'.sent) = 2 + Ceil(Len(ret'.img), ChunkSize)
    /\ Succeeds("clearScreen") => Len(ret'.sent) = 1
    /\ Succeeds("setBrightness") =>
           \/ Len(ret'.sent) = 1
           \/ dev.brightness = ret'.param[1]
    /\ Succeeds("setBackgroundColor") =>
           \/ Len(ret'.sent) = 1
           \/ dev.backgroundColor = HexTriple(ret'.param[1])

\* the step changes the cached profile or empties the sample log at the end
\* of a call
CallHasEffect ==
    /\ ret' # NoRet
    /\ ret'.op \in {"setImage", "clearScreen", "setBrightness", "setBackgroundColor"}
    /\ \/ config' # config
       \/ signaturePath # <<>> /\ signaturePath' = <<>>

C35_Step ==
    /\ WritesMade
    /\ CallHasEffect => ret'.result = "TypeError" \/ (ret'.result = "ok" /\ WritesMade)

\* C35: a device write attempted while the session is not open fails: when
\* the session closes after an operation passed its connection check, the
\* operation reports an error; it does not report success, update the
\* cached profile or clear the sample log for a write that was never sent.
C35_NoSuccessWithoutWrite == [][C35_Step]_vars

\* the same for the steps that begin with the session open
C35_WhileOpen == [][isConnected => C35_Step]_vars

\* no setImage call is in progress
NoSetImageInProgress == \A c \in Calls : calls[c].op # "setImage"

\* C36: the single-flight guard is held only while a setImage call is
\* between taking it and returning: whenever no setImage call is in
\* progress the guard is free, also after an upload that ended with a
\* transport error on the start, a data or the end write.
C36_GuardFreeWhenIdle == NoSetImageInProgress => ~deviceIsSending

\* a setImage call that reports success leaves the guard free
C36_FreedOnSuccess == [][Succeeds("setImage") => ~deviceIsSending']_vars

\* a later setImage call is failed with Busy although no other setImage call
\* is in progress
C36_BusyAlone ==
    /\ ret.op = "setImage"
    /\ ret.result = "Busy"
    /\ NoSetImageInProgress

\* the setImage calls between line 620 (guard taken) and their return
PastGuard == { c \in Calls : calls[c].op = "setImage" /\ calls[c].pc \in {"start", "end"} }

DecodedWithKnownValues(s) ==
    /\ s.cpress.d > 0
    /\ s.cx \notin {NaN, Infinity}
    /\ s.cy \notin {NaN, Infinity}
    /\ s.cap.inkMode # Null
    /\ s.cap.penColor # Null

\* C38: no pen sample is decoded, logged or drawn before negotiation has
\* supplied the values the decoder needs: every sample in the log was
\* decoded with a known, non-zero maximum pressure and known scale factors
\* and was tested against a known ink flag and pen colour, also when input
\* reports arrive during the reads of connect or after a failed connect.
C38_SamplesDecodedAfterNegotiation ==
    \A i \in 1 .. Len(signaturePath) : DecodedWithKnownValues(signaturePath[i])

\* the samples logged by a step that begins with a complete profile
C38_WithCompleteProfile ==
    [][AllKnown(config) =>
          \A i \in Len(signaturePath) + 1 .. Len(signaturePath') :
              DecodedWithKnownValues(signaturePath'[i])]_vars

\* C39: at every reachable state the stroke scene is well formed: there is
\* at most one open segment and, if there is one, it is the last segment of
\* the scene; every segment of the scene has at least one point; and there
\* is no open segment while the sample log is empty.
C39_SceneWellFormed ==
    /\ svgPolyLine.ref \in {"null", "last"}
    /\ svgPolyLine.ref = "last" => svgElement # <<>>
    /\ \A j \in 1 .. Len(svgElement) : Len(svgElement[j].points) >= 1
    /\ signaturePath = <<>> => svgPolyLine.ref = "null"

\* the same without the demand that the open polyline is in the scene, and
\* where such a polyline comes from: a sample drawn with no pen colour
C39_SceneOfKnownColour ==
    /\ svgPolyLine.ref = "last" => svgElement # <<>>
    /\ \A j \in 1 .. Len(svgElement) : Len(svgElement[j].points) >= 1
    /\ signaturePath = <<>> => svgPolyLine.ref = "null"
    /\ svgPolyLine.ref = "detached" =>
           \E i \in 1 .. Len(signaturePath) : signaturePath[i].cap.penColor = Null

\* an event has been dispatched to the subscriptions of the harness
DispatchApplied == fn.f = "raiseEvent" /\ fn.out # <<>>

\* how often the subscription with the given id was invoked
TimesInvoked(invoked, id) ==
    Cardinality({ k \in 1 .. Len(invoked) : invoked[k] = id })

\* the subscription with the given id is in the list
Subscribed(evs, id) == \E k \in 1 .. Len(evs) : evs[k].id = id

\* C40: during the dispatch of one event every listener that was subscribed
\* for the event name when the dispatch started and has not itself been
\* removed is invoked exactly once, also when a callback calls un() or on()
\* during the dispatch: removing one listener never causes another, still
\* subscribed listener to be skipped or invoked twice.
C40_DispatchSurvivesUnsubscribe ==
    DispatchApplied =>
        \A k \in 1 .. Len(fn.in[1]) :
            (/\ fn.in[1][k].eventName = fn.in[2]
             /\ Subscribed(fn.out[1].events, fn.in[1][k].id))
                => TimesInvoked(fn.out[1].invoked, fn.in[1][k].id) = 1

\* no listener is invoked twice, and a dispatch in which no callback
\* unsubscribes invokes every listener of the event name once
C40_WithoutUnsubscribe ==
    DispatchApplied =>
        \A k \in 1 .. Len(fn.in[1]) :
            /\ TimesInvoked(fn.out[1].invoked, fn.in[1][k].id) <= 1
            /\ (/\ fn.in[1][k].eventName = fn.in[2]
                /\ \A j \in 1 .. Len(fn.in[1]) :
                       fn.in[1][j].eventName = fn.in[2] => fn.in[1][j].callbackFn # "once")
                   => TimesInvoked(fn.out[1].invoked, fn.in[1][k].id) = 1

\* with callbacks that leave #events alone the loop makes the calls of
\* raiseEvent, in the same order
C40_SameAsRaiseEvent ==
    DispatchApplied /\ (\A j \in 1 .. Len(fn.in[1]) : fn.in[1][j].callbackFn = "f") =>
        LET made == raiseEvent(fn.in[1], fn.in[2], <<>>).calls
        IN  fn.out[1].invoked = [k \in 1 .. Len(made) |-> made[k].sub]

====
